---- MODULE Spec2Model ----
\* Verification model of the vlaude daemon core: the SocketClient flag and
\* transport, the SessionWatcher (transcript tailer), the DaemonService event
\* loop (run_once / handle_event), the approval registry and the
\* SharedDbAdapter writer election.
EXTENDS Integers, Sequences, FiniteSets, TLC

\* ---------------------------------------------------------------- bounds

\* number of JSON records the transcript writer produces in a run
MaxLines == 2
\* number of server keys the Directory holds when get_servers is called
MaxListing == 3
\* number of characters of a project path after its leading '/'
MaxPathLen == 3
\* number of ServiceRegistry calls each caller makes
MaxRegCalls == 2
\* number of file truncations / deletions the environment performs
MaxFileOps == 1
\* number of connect/disconnect/error callbacks the transports deliver
MaxLosses == 3
\* number of events the server pushes to the daemon
MaxEvents == 2
\* capacity used for the inbound event queue of the model
MaxQueue == 2
\* number of register / try_takeover / release calls and lease expiries
MaxElect == 4
\* number of times the Directory's listing changes
MaxDirChanges == 1

\* ---------------------------------------------------------------- values

None == "none"

\* session ids and addresses are spelled as character tuples, so that the
\* string tests of the code (starts_with, contains, split) are computed
S1 == <<"s", "1">>
S2 == <<"s", "2">>
Sessions == {S1, S2}

Localhost == <<"l","o","c","a","l","h","o","s","t",":","1","0","0","0","5">>
PrivateAddr == <<"1","0",".","0",".","0",".","5",":","1","0","0","0","5">>
PublicAddr == <<"v","l",".","i","o",":","1","0","0","0","5">>
Addrs == {Localhost, PrivateAddr, PublicAddr}
LoopbackAddr == <<"1","2","7",".","0",".","0",".","1",":","1","0","0","0","5">>
LanAddr == <<"1","9","2",".","1","6","8",".","1",".","5",":","1","0","0","0","5">>
DockerAddr == <<"1","7","2",".","1","7",".","0",".","2",":","1","0","0","0","5">>
ServerAddrs == Addrs \cup {LoopbackAddr, LanAddr, DockerAddr}

Transports == 1..(MaxLosses + 1)

\* ------------------------------------------------- transcript file bytes
\* A file is a sequence of bytes.  NL is the newline byte; the JSON record
\* number k is spelled by the two bytes k (its opening part) and -k (its
\* closing part), so a line parses as JSON exactly when it is <<k, -k>>.

NL == 0

\* serde_json::from_str: Ok(value) or Err
from_str(content) ==
    IF Len(content) = 2 /\ content[1] > 0 /\ content[2] = -content[1]
    THEN [ok |-> TRUE, value |-> content[1]]
    ELSE [ok |-> FALSE, value |-> NL]

\* one iteration of the `for line in reader.lines()` loop
ConsumeLine(content, acc) ==
    [new_position |-> acc.new_position + Len(content) + 1,
     messages |-> IF content = <<>> \/ ~from_str(content).ok
                  THEN acc.messages
                  ELSE Append(acc.messages, from_str(content).value)]

\* BufRead::lines from byte index i: lines end at NL; a last line without NL
\* is yielded too (when it is not empty)
RECURSIVE ReadLines(_, _, _, _)
ReadLines(bytes, i, content, acc) ==
    IF i > Len(bytes)
    THEN IF content = <<>> THEN acc ELSE ConsumeLine(content, acc)
    ELSE IF bytes[i] = NL
         THEN ReadLines(bytes, i + 1, <<>>, ConsumeLine(content, acc))
         ELSE ReadLines(bytes, i + 1, Append(content, bytes[i]), acc)

read_incremental_static(bytes, last_position) ==
    IF Len(bytes) <= last_position
    THEN [messages |-> <<>>, new_position |-> last_position]
    ELSE ReadLines(bytes, last_position + 1, <<>>,
                   [messages |-> <<>>, new_position |-> last_position])

\* ------------------------------------------------------ string helpers

StartsWith(s, prefix) ==
    /\ Len(s) >= Len(prefix)
    /\ SubSeq(s, 1, Len(prefix)) = prefix

\* s.contains(pat)
Contains(s, pat) ==
    \E i \in 1..(Len(s) - Len(pat) + 1) : SubSeq(s, i, i + Len(pat) - 1) = pat

\* address.split(':').next()
RECURSIVE SplitHost(_)
SplitHost(address) ==
    IF address = <<>> \/ Head(address) = ":"
    THEN <<>>
    ELSE <<Head(address)>> \o SplitHost(Tail(address))

Https == <<"h","t","t","p","s",":","/","/">>
\* format!("https://{}", addr)
Url(addr) == Https \o addr

\* ------------------------------------------------- ServiceRegistry order

get_priority(address) ==
    LET host == SplitHost(address) IN
    IF host = <<"l","o","c","a","l","h","o","s","t">>
       \/ host = <<"1","2","7",".","0",".","0",".","1">>
    THEN 3
    ELSE IF \/ StartsWith(host, <<"1","9","2",".","1","6","8",".">>)
            \/ StartsWith(host, <<"1","0",".">>)
            \/ StartsWith(host, <<"1","7","2",".">>)
         THEN 2
         ELSE 1

\* insert a behind every element whose priority is not lower: with
\* InsertionSort this is the stable descending sort of Vec::sort_by
RECURSIVE InsertByPriority(_, _)
InsertByPriority(sorted, a) ==
    IF sorted = <<>> THEN <<a>>
    ELSE IF get_priority(Head(sorted)) >= get_priority(a)
         THEN <<Head(sorted)>> \o InsertByPriority(Tail(sorted), a)
         ELSE <<a>> \o sorted

\* a sort that puts an address before the earlier addresses of its priority
RECURSIVE InsertBeforeEqual(_, _)
InsertBeforeEqual(sorted, a) ==
    IF sorted = <<>> THEN <<a>>
    ELSE IF get_priority(Head(sorted)) > get_priority(a)
         THEN <<Head(sorted)>> \o InsertBeforeEqual(Tail(sorted), a)
         ELSE <<a>> \o sorted

RECURSIVE sort_by_priority_unstable(_)
sort_by_priority_unstable(addresses) ==
    IF addresses = <<>> THEN <<>>
    ELSE InsertBeforeEqual(sort_by_priority_unstable(SubSeq(addresses, 1, Len(addresses) - 1)),
                           addresses[Len(addresses)])

RECURSIVE sort_by_priority(_)
sort_by_priority(addresses) ==
    IF addresses = <<>> THEN <<>>
    ELSE InsertByPriority(sort_by_priority(SubSeq(addresses, 1, Len(addresses) - 1)),
                          addresses[Len(addresses)])

\* the listing of the keys, sorted
get_servers(listing) == sort_by_priority(listing)

\* ------------------------------------------------------ input validation

\* str::replace('/', "-")
RECURSIVE replace(_)
replace(path) ==
    IF path = <<>> THEN <<>>
    ELSE <<IF Head(path) = "/" THEN "-" ELSE Head(path)>> \o replace(Tail(path))

\* ClaudeReader::encode_path
encode_path(path) ==
    IF StartsWith(path, <<"/">>)
    THEN <<"-">> \o replace(Tail(path))
    ELSE replace(path)

\* ClaudeReader::decode_path hands the name to ClaudeAdapter::decode_path,
\* which test_decode_path pins: every '-' becomes '/'
RECURSIVE decode_path(_)
decode_path(encoded) ==
    IF encoded = <<>> THEN <<>>
    ELSE <<IF Head(encoded) = "-" THEN "/" ELSE Head(encoded)>> \o decode_path(Tail(encoded))

\* the project of the model, and the cache list_projects fills with it
ProjectPath == <<"/", "p">>
path_cache == [p \in {ProjectPath} |-> <<"-", "p">>]

\* get_encoded_dir_name(project_path).unwrap_or_else(|| encode_path(project_path))
encoded_dir(project_path) ==
    IF project_path \in DOMAIN path_cache
    THEN path_cache[project_path]
    ELSE encode_path(project_path)

\* the segments of "$HOME/.claude/projects/{encoded_dir}/{session_id}.jsonl"
session_path(project_path, session_id) ==
    [dir |-> encoded_dir(project_path), name |-> session_id]

validate_path_component(s) ==
    /\ s # <<>>
    /\ ~Contains(s, <<".", ".">>)
    /\ ~StartsWith(s, <<"/">>)
    /\ ~Contains(s, <<"NUL">>)


\* ------------------------------------------------------------- the state

VARIABLES
    connected,          \* SocketClient.connected (AtomicBool)
    client,             \* SocketClient.client: 0 is None, else the transport it holds
    current_url,        \* SocketClient.current_url
    event_rx,           \* SocketClient inbound queue (event_tx / event_rx)
    transports,         \* every transport opened so far, and whether it still lives
    servers_up,         \* addresses on which a server accepts connections
    directory,          \* server keys the Directory lists, in KEYS order
    sent,               \* the frames the transports accepted, in order
    phase,              \* DaemonService: "new", "running", "stopped", "failed"
    registry,           \* DaemonService.registry is Some
    shared_db,          \* DaemonService.shared_db is Some
    watching_sessions,  \* DaemonService.watching_sessions
    pending_approvals,  \* DaemonService.pending_approvals: request id -> slot owner
    sessions,           \* SessionWatcher.sessions: session id -> last_position
    files,              \* the transcript files
    callers,            \* the request_approval calls in progress
    role,               \* SharedDbAdapter.role, per process
    heartbeat_cancel,   \* SharedDbAdapter.heartbeat_cancel, per process
    heartbeat_handle,   \* SharedDbAdapter.heartbeat_handle: 0 is None, else a task
    tasks,              \* the heartbeat tasks alive, per process: task -> position
    store,              \* SharedStore: the writer lease
    db_rows,            \* SharedStore: the messages inserted
    lines,              \* history: what became of every record written
    ack_calls,          \* the emit_with_ack calls in progress
    daemon_keys,        \* Directory: the vlaude:daemons:{device_id} keys
    channel,            \* Directory: the events published on vlaude:registry:events
    servers_found,      \* what get_servers was called on and what it returned
    reg_calls,          \* the ServiceRegistry daemon calls in progress
    path_trip,          \* a project path, and what encode_path and decode_path made of it
    project_dirs,       \* the session counts of the further project directories, latest first
    keepalive_handle,   \* SocketClient.keepalive_handle: 0 is None, else the task it holds
    keepalive_tasks,    \* the keepalive tasks alive
    reconnect_rx,       \* the signals waiting in the reconnect channel
    listener,           \* the event listener task: where it is, and the events queued for it
    cli,                \* history: the SocketClient calls made and what they returned
    hist,               \* history: what the socket and the handlers did last
    budget              \* how much the environment has done so far

sockVars == <<connected, client, current_url, event_rx>>
netVars == <<transports, servers_up, directory>>
svcVars == <<phase, registry, shared_db, watching_sessions>>
tailVars == <<sessions, files, lines>>
apprVars == <<pending_approvals, callers>>
elecVars == <<role, heartbeat_cancel, heartbeat_handle, tasks, store>>
ackVars == <<ack_calls>>
regVars == <<daemon_keys, channel, servers_found, reg_calls>>
pathVars == <<path_trip>>
storeVars == <<project_dirs>>
cliVars == <<keepalive_handle, keepalive_tasks, reconnect_rx, listener, cli>>
extVars == <<ackVars, regVars, pathVars, storeVars, cliVars>>
daemonVars == <<sockVars, netVars, svcVars, tailVars, apprVars, elecVars, db_rows, sent, hist, budget>>
vars == <<daemonVars, extVars>>

Procs == {"A", "B"}
\* the process that runs the DaemonService
Daemon == "A"
Callers == {"c1", "c2"}
RequestIds == {"r1", "r2"}
\* request ids of request_approval: session_id + "-" + tool_use_id
ApprovalIds == {"s1-u1"}

NoEvent == [requestId |-> None, sessionId |-> <<>>, projectPath |-> <<>>,
            approved |-> FALSE, reason |-> None]
Event(type, fields) == [type |-> type] @@ fields @@ NoEvent
Disconnected == Event("__disconnected", NoEvent)

Frame(event, key, val, t) == [event |-> event, key |-> key, val |-> val, t |-> t]

\* ------------------------------------------------------------ SocketClient
\* The handlers below are written over one record d holding the fields a
\* run_once iteration can change, so that a handler is a function d -> d.

Cur ==
    [connected |-> connected, client |-> client, transports |-> transports,
     sent |-> sent, sessions |-> sessions, watching_sessions |-> watching_sessions,
     pending_approvals |-> pending_approvals, callers |-> callers,
     lines |-> lines, db_rows |-> db_rows, hist |-> hist]

Install(d) ==
    /\ connected' = d.connected
    /\ client' = d.client
    /\ transports' = d.transports
    /\ sent' = d.sent
    /\ sessions' = d.sessions
    /\ watching_sessions' = d.watching_sessions
    /\ pending_approvals' = d.pending_approvals
    /\ callers' = d.callers
    /\ lines' = d.lines
    /\ db_rows' = d.db_rows
    /\ hist' = d.hist

Alive(ts, t) == t # 0 /\ ts[t].state \in {"fresh", "alive"}

is_connected(d) == d.connected

\* the outcome of SocketClient::emit
emit_result(d) ==
    IF d.client = 0 THEN "NotConnected"
    ELSE IF Alive(d.transports, d.client) THEN "Ok" ELSE "EmitFailed"

\* an emit that also stores the flag on success
emit_storing_flag(d, event, key, val) ==
    IF emit_result(d) = "Ok"
    THEN [d EXCEPT !.sent = Append(@, Frame(event, key, val, d.client)),
                   !.connected = TRUE,
                   !.hist.last_change = "emit"]
    ELSE d

emit(d, event, key, val) ==
    IF emit_result(d) = "Ok"
    THEN [d EXCEPT !.sent = Append(@, Frame(event, key, val, d.client)),
                   !.hist.last_change = "emit"]
    ELSE d

FreeTransports(ts) == {t \in Transports : ts[t].state = "unused"}
NewTransport(ts) == CHOOSE t \in FreeTransports(ts) : \A u \in FreeTransports(ts) : t <= u

\* whether the handshake to url succeeds
Accepts(url) == \E a \in servers_up : Url(a) = url

\* SocketClient::connect: on success the flag is stored and the new client
\* replaces the old one, whose transport is not closed
connect_to(d, url) ==
    IF ~Accepts(url) \/ FreeTransports(d.transports) = {}
    THEN d
    ELSE LET t == NewTransport(d.transports) IN
         [d EXCEPT !.transports[t] = [state |-> "fresh", url |-> url],
                   !.connected = TRUE,
                   !.client = t,
                   !.hist.last_change = "handshake",
                   !.hist.last_flag_change = "handshake"]

connect(d) == connect_to(d, current_url)

connect_result(d) ==
    IF ~Accepts(current_url) \/ FreeTransports(d.transports) = {}
    THEN "ConnectionFailed" ELSE "Ok"

\* RegisterData and OnlineData carry no state of the model
register(d) == emit(d, "daemon:register", None, None)
report_online(d) == emit(d, "daemon:etermOnline", None, None)
report_offline(d) == emit(d, "daemon:etermOffline", None, None)


\* ---------------------------------------------------------- SessionWatcher

NoFile == [exists |-> FALSE, bytes |-> <<>>]
\* the file at ~/.claude/projects/<dir>/<session_id>.jsonl
FileOf(session_id) == IF session_id \in Sessions THEN files[session_id] ELSE NoFile

\* a watch that starts every session at offset 0
watch_session_from_start(sess, session_id) ==
    [k \in DOMAIN sess \cup {session_id} |-> IF k = session_id THEN 0 ELSE sess[k]]

\* SessionWatcher::watch_session: the entry for session_id is (re)placed,
\* its offset the present length of the file, or 0 without a file
watch_session(sess, session_id) ==
    LET f == FileOf(session_id)
        position == IF f.exists THEN Len(f.bytes) ELSE 0
    IN [k \in DOMAIN sess \cup {session_id} |->
            IF k = session_id THEN position ELSE sess[k]]

\* an unwatch_session that removes nothing
unwatch_session_keeping(sess, session_id) == sess

unwatch_session(sess, session_id) ==
    [k \in DOMAIN sess \ {session_id} |-> sess[k]]

has_sessions(sess) == DOMAIN sess # {}
session_count(sess) == Cardinality(DOMAIN sess)

NewMessage(session_id, message) ==
    [kind |-> "NewMessage", session_id |-> session_id, message |-> message]
SessionDeleted(session_id) ==
    [kind |-> "SessionDeleted", session_id |-> session_id, message |-> NL]

\* the loop of check_updates over the snapshot, in the map's iteration order
RECURSIVE check_updates_from(_, _, _)
check_updates_from(ord, snapshot, acc) ==
    IF ord = <<>> THEN acc
    ELSE
      LET session_id == Head(ord)
          last_position == snapshot[session_id]
          f == FileOf(session_id)
      IN IF ~f.exists
         THEN check_updates_from(Tail(ord), snapshot,
                [acc EXCEPT !.events = Append(@, SessionDeleted(session_id)),
                            !.deleted = @ \cup {session_id}])
         ELSE
           LET r == read_incremental_static(f.bytes, last_position)
               found == [i \in 1..Len(r.messages) |-> NewMessage(session_id, r.messages[i])]
           IN check_updates_from(Tail(ord), snapshot,
                [acc EXCEPT !.sessions = IF r.new_position > last_position
                                         THEN [@ EXCEPT ![session_id] = r.new_position]
                                         ELSE @,
                            !.events = @ \o found])

check_updates(sess, ord) ==
    LET r == check_updates_from(ord, sess,
                                [sessions |-> sess, events |-> <<>>, deleted |-> {}])
    IN [sessions |-> [k \in DOMAIN sess \ r.deleted |-> r.sessions[k]],
        events |-> r.events,
        deleted |-> r.deleted]

\* history: the records of a session that stopped being watched, or whose
\* file was cut, are no longer owed a notification
Excuse(ls, gone) ==
    [k \in DOMAIN ls |-> IF ls[k].sess \in gone THEN [ls[k] EXCEPT !.owed = FALSE] ELSE ls[k]]

\* ------------------------------------------------ DaemonService handlers

is_writer(p) == role[p] = "Writer"

\* sync_message_to_shared_db: upsert_session and insert_messages; db_ok is
\* whether the SharedStore calls succeed
sync_message_to_shared_db(d, message, db_ok) ==
    LET d1 == [d EXCEPT !.hist.synced = @ \cup {[message |-> message, ok |-> db_ok]}]
    IN IF db_ok THEN [d1 EXCEPT !.db_rows = @ \cup {message}] ELSE d1

handle_watch_event(d, event, db_ok) ==
    IF event.kind = "NewMessage"
    THEN LET d1 == IF shared_db /\ is_writer(Daemon)
                   THEN sync_message_to_shared_db(d, event.message, db_ok)
                   ELSE d
         IN emit([d1 EXCEPT !.hist.yielded = @ \cup {event.message}],
                 "daemon:newMessage", event.session_id, event.message)
    ELSE emit(d, "daemon:sessionDeleted", event.session_id, None)

\* a loop that handles the events of a poll last to first
RECURSIVE handle_watch_events_last_first(_, _, _)
handle_watch_events_last_first(d, events, db_ok) ==
    IF events = <<>> THEN d
    ELSE handle_watch_event(
            handle_watch_events_last_first(d, Tail(events), db_ok),
            Head(events), Head(events).message \in db_ok)

\* the `for event in events` loop of run_once; the writes of the records in
\* db_ok succeed
RECURSIVE handle_watch_events(_, _, _)
handle_watch_events(d, events, db_ok) ==
    IF events = <<>> THEN d
    ELSE handle_watch_events(
            handle_watch_event(d, Head(events), Head(events).message \in db_ok),
            Tail(events), db_ok)

\* the first half of run_once
poll_sessions(d, ord, db_ok) ==
    IF DOMAIN d.sessions = {} THEN d
    ELSE LET r == check_updates(d.sessions, ord)
         IN handle_watch_events(
                [d EXCEPT !.sessions = r.sessions, !.lines = Excuse(@, r.deleted)],
                r.events, db_ok)

RequestEvents ==
    {"server:requestProjectData", "server:requestSessionMetadata",
     "server:requestSessionMessages", "server:createSession",
     "server:checkLoading", "server:sendMessage"}

\* data.get("requestId").and_then(as_str).unwrap_or_default()
unwrap_or_default(v) == IF v = None THEN "" ELSE v

\* io_ok: whether the TranscriptStore listing succeeds
handle_request_project_data(d, data, io_ok) ==
    IF ~io_ok THEN d
    ELSE emit(d, "daemon:projectData", data.requestId, None)

handle_request_session_metadata(d, data, io_ok) ==
    IF ~io_ok THEN d
    ELSE emit(d, "daemon:sessionMetadata", data.requestId, None)

\* a handler that answers a rejected request with an error frame
handle_request_session_messages_replying(d0, data) ==
    IF ~validate_path_component(data.sessionId)
    THEN emit(d0, "daemon:sessionMessages", data.requestId, None)
    ELSE LET d == [d0 EXCEPT !.hist.opened =
                       @ \cup {session_path(data.projectPath, data.sessionId)}]
         IN IF ~FileOf(data.sessionId).exists THEN d
            ELSE emit(d, "daemon:sessionMessages", data.requestId, None)

\* read_messages_raw fails when the session file cannot be opened
handle_request_session_messages(d0, data) ==
    IF ~validate_path_component(data.sessionId) THEN d0
    ELSE LET d == [d0 EXCEPT !.hist.opened =
                       @ \cup {session_path(data.projectPath, data.sessionId)}]
         IN IF ~FileOf(data.sessionId).exists THEN d
            ELSE emit(d, "daemon:sessionMessages", data.requestId, None)

handle_start_watching(d, data) ==
    IF ~validate_path_component(data.sessionId) THEN d
    ELSE [d EXCEPT !.watching_sessions = @ \cup {data.sessionId},
                   !.sessions = watch_session(@, data.sessionId),
                   !.hist.opened = @ \cup {session_path(data.projectPath, data.sessionId)}]

\* a handler that forgets the session in the service but not in the watcher
handle_stop_watching_set_only(d, data) ==
    [d EXCEPT !.watching_sessions = @ \ {data.sessionId}]

handle_stop_watching(d, data) ==
    [d EXCEPT !.watching_sessions = @ \ {data.sessionId},
              !.sessions = unwatch_session(@, data.sessionId),
              !.lines = Excuse(@, {data.sessionId})]

\* tx.send delivers while the receiver of the call exists
ReceiverAlive(c) == c.pc \in {"sending", "waiting"}

\* a handler that looks the slot up without taking it out of the map
handle_approval_response_get(d, data) ==
    LET request_id == unwrap_or_default(data.requestId) IN
    IF request_id \in DOMAIN d.pending_approvals
    THEN LET c == d.pending_approvals[request_id]
         IN [d EXCEPT !.callers[c].chan =
                          IF ReceiverAlive(d.callers[c])
                          THEN [st |-> "filled", approved |-> data.approved, reason |-> data.reason]
                          ELSE @]
    ELSE emit(d, "daemon:approvalExpired", request_id, None)

handle_approval_response(d, data) ==
    LET request_id == unwrap_or_default(data.requestId) IN
    IF request_id \in DOMAIN d.pending_approvals
    THEN LET c == d.pending_approvals[request_id]
             left == [k \in DOMAIN d.pending_approvals \ {request_id} |-> d.pending_approvals[k]]
         IN [d EXCEPT !.pending_approvals = left,
                      !.callers[c].chan =
                          IF ReceiverAlive(d.callers[c])
                          THEN [st |-> "filled", approved |-> data.approved, reason |-> data.reason]
                          ELSE @]
    ELSE emit(d, "daemon:approvalExpired", request_id, None)

handle_create_session(d, data) ==
    emit(d, "daemon:sessionCreatedResult", unwrap_or_default(data.requestId), FALSE)

handle_check_loading(d, data) ==
    emit(d, "daemon:checkLoadingResult", unwrap_or_default(data.requestId), FALSE)

handle_send_message(d, data) ==
    emit(d, "daemon:sendMessageResult", unwrap_or_default(data.requestId), FALSE)

\* history: the request ids handle_event has dispatched, and the sessions
\* whose last watch event was a startWatching
Dispatch(d, data) ==
    IF data.type \in RequestEvents /\ data.requestId # None
    THEN [d EXCEPT !.hist.dispatched = Append(@, data.requestId)]
    ELSE IF data.type = "server:startWatching"
    THEN [d EXCEPT !.hist.wanted = @ \cup {data.sessionId}]
    ELSE IF data.type = "server:stopWatching"
    THEN [d EXCEPT !.hist.wanted = @ \ {data.sessionId}]
    ELSE d

\* the Result the handler of the event returns: the error of its first
\* failing `?`, or Ok
handler_result(d, data, io_ok) ==
    LET sent_result == IF emit_result(d) = "Ok" THEN "Ok" ELSE "EmitError" IN
    CASE data.type \in {"server:requestProjectData", "server:requestSessionMetadata"} ->
            IF ~io_ok THEN "StoreError" ELSE sent_result
      [] data.type = "server:requestSessionMessages" ->
            IF ~validate_path_component(data.sessionId) THEN "InvalidInput"
            ELSE IF ~FileOf(data.sessionId).exists THEN "StoreError"
            ELSE sent_result
      [] data.type = "server:startWatching" ->
            IF ~validate_path_component(data.sessionId) THEN "InvalidInput" ELSE "Ok"
      [] data.type = "server:approvalResponse" ->
            IF unwrap_or_default(data.requestId) \in DOMAIN d.pending_approvals
            THEN "Ok" ELSE sent_result
      [] data.type \in {"server:createSession", "server:checkLoading",
                        "server:sendMessage"} -> sent_result
      [] OTHER -> "Ok"

\* handle_event, with its Result as run_once logs it
handle_event(d0, data, io_ok) ==
    LET d == [Dispatch(d0, data) EXCEPT !.hist.result = handler_result(d0, data, io_ok)] IN
    CASE data.type = "server:requestProjectData" -> handle_request_project_data(d, data, io_ok)
      [] data.type = "server:requestSessionMetadata" -> handle_request_session_metadata(d, data, io_ok)
      [] data.type = "server:requestSessionMessages" -> handle_request_session_messages(d, data)
      [] data.type = "server:startWatching" -> handle_start_watching(d, data)
      [] data.type = "server:stopWatching" -> handle_stop_watching(d, data)
      [] data.type = "server:approvalResponse" -> handle_approval_response(d, data)
      [] data.type = "server:createSession" -> handle_create_session(d, data)
      [] data.type = "server:checkLoading" -> handle_check_loading(d, data)
      [] data.type = "server:sendMessage" -> handle_send_message(d, data)
      \* the callback events, server-shutdown, __disconnected and unknown
      \* events change nothing of the core
      [] OTHER -> d

\* the reconnect branch of run_once: connect, then register and report_online
\* with their results dropped
reconnect_branch(d) ==
    IF connect_result(d) # "Ok" THEN d
    ELSE LET d1 == report_online(register(connect(d)))
         IN [d1 EXCEPT !.hist.reconnect =
                [done |-> TRUE, url |-> current_url, listed |-> get_servers(directory)]]

run_once(d, ord, db_ok, io_ok) ==
    LET d1 == poll_sessions(d, ord, db_ok) IN
    IF event_rx # <<>>
    THEN handle_event(d1, Head(event_rx), io_ok)
    ELSE IF ~is_connected(d1) THEN reconnect_branch(d1) ELSE d1


\* --------------------------------------------------------------- SharedStore
\* The writer lease of claude-session-db: holder is the process holding it,
\* fresh whether its last heartbeat is recent enough to pass the health check.

NoLease == [holder |-> None, fresh |-> FALSE]

register_writer(st, p) ==
    IF st.holder \in {None, p}
    THEN [role |-> "Writer", store |-> [holder |-> p, fresh |-> TRUE]]
    ELSE [role |-> "Reader", store |-> st]

heartbeat(st, p) ==
    IF st.holder = p
    THEN [ok |-> TRUE, store |-> [st EXCEPT !.fresh = TRUE]]
    ELSE [ok |-> FALSE, store |-> st]

release_writer(st, p) == IF st.holder = p THEN NoLease ELSE st

store_try_takeover(st, p) ==
    IF st.holder = None \/ (st.holder # p /\ ~st.fresh)
    THEN [taken |-> TRUE, store |-> [holder |-> p, fresh |-> TRUE]]
    ELSE [taken |-> FALSE, store |-> st]

\* ----------------------------------------------------------- SharedDbAdapter
\* Written over one record e of the adapters' fields and the store.

CurE ==
    [role |-> role, heartbeat_cancel |-> heartbeat_cancel,
     heartbeat_handle |-> heartbeat_handle, tasks |-> tasks, store |-> store]

InstallE(e) ==
    /\ role' = e.role
    /\ heartbeat_cancel' = e.heartbeat_cancel
    /\ heartbeat_handle' = e.heartbeat_handle
    /\ tasks' = e.tasks
    /\ store' = e.store

\* a start_heartbeat can leave one task behind that abort did not reach
TaskIds == 1..(MaxElect + 1)

\* JoinHandle::abort ends a task that waits at an await point; a task that
\* is between two await points runs on to the next one
abort(ts, h) ==
    IF h \in DOMAIN ts /\ ts[h] = "sleeping"
    THEN [t \in DOMAIN ts \ {h} |-> ts[t]]
    ELSE ts

stop_heartbeat(e, p) ==
    [e EXCEPT !.heartbeat_cancel[p] = TRUE,
              !.tasks[p] = abort(@, e.heartbeat_handle[p]),
              !.heartbeat_handle[p] = 0]

start_heartbeat(e, p) ==
    LET e1 == stop_heartbeat(e, p)
        t == CHOOSE t \in TaskIds : t \notin DOMAIN e1.tasks[p]
    IN [e1 EXCEPT !.heartbeat_cancel[p] = FALSE,
                  !.tasks[p] = [u \in DOMAIN @ \cup {t} |-> IF u = t THEN "sleeping" ELSE @[u]],
                  !.heartbeat_handle[p] = t]

\* db_ok: whether the SharedStore call returns without an error
SharedDb_register(e, p, db_ok) ==
    LET e1 == [e EXCEPT !.heartbeat_cancel[p] = FALSE] IN
    IF ~db_ok THEN e1
    ELSE LET r == register_writer(e1.store, p)
             e2 == [e1 EXCEPT !.store = r.store, !.role[p] = r.role]
         IN IF r.role = "Writer" THEN start_heartbeat(e2, p) ELSE e2

\* a try_takeover that makes the adapter Writer whatever the store answers
SharedDb_try_takeover_regardless(e, p, db_ok) ==
    start_heartbeat([e EXCEPT !.heartbeat_cancel[p] = FALSE, !.role[p] = "Writer"], p)

SharedDb_try_takeover(e, p, db_ok) ==
    LET e1 == [e EXCEPT !.heartbeat_cancel[p] = FALSE] IN
    IF ~db_ok THEN e1
    ELSE LET r == store_try_takeover(e1.store, p)
         IN IF r.taken
            THEN start_heartbeat([e1 EXCEPT !.store = r.store, !.role[p] = "Writer"], p)
            ELSE e1

SharedDb_release(e, p, db_ok) ==
    LET e1 == stop_heartbeat(e, p) IN
    IF ~db_ok THEN e1
    ELSE [e1 EXCEPT !.store = release_writer(@, p), !.role[p] = "Reader"]


\* ------------------------------------------------------------------- Init

\* a record already in a transcript before the daemon looks at it
Old == MaxLines + 1
OldContent == <<Old, -Old, NL>>

\* what the Directory may list: no server, one, or two in KEYS order
Listings == {<<>>, <<PrivateAddr>>, <<PublicAddr, Localhost>>}

\* a ServiceRegistry call not yet made. op, dev, ttl, sessions and info are
\* the function and its arguments, read is the DaemonInfo the call got from
\* the Directory, n counts the calls made.  History: key is the key as the
\* call's last key command left it, wrote and published what the call did,
\* from the length of the channel when the call (or the register_daemon
\* before it) began, alone whether no other caller touched the key since,
\* trip whether the call is the unregister_daemon of a round trip
NoInfo == [device_id |-> None, device_name |-> None, platform |-> None,
           version |-> None, sessions |-> <<>>, registered_at |-> 0]
NoKey == [present |-> FALSE, value |-> NoInfo, ttl |-> 0]
NoRegCall == [op |-> None, pc |-> "idle", dev |-> None, ttl |-> 0, sessions |-> <<>>,
              info |-> NoInfo, read |-> NoInfo, result |-> None, n |-> 0,
              key |-> NoKey, wrote |-> FALSE, published |-> 0, from |-> 0,
              alone |-> TRUE, trip |-> FALSE]

\* an emit_with_ack call not yet made: its position, the state of the ack
\* callback inside the transport library, the oneshot channel, whether the
\* deadline has passed, and what the call returned
NoAck == [pc |-> "idle", callback |-> None, chan |-> None, late |-> FALSE,
          replied |-> FALSE, result |-> None]

\* the event listener before it is started
NoListener == [pc |-> "none", rx |-> <<>>]
\* history of the SocketClient calls: n counts them, op and result are the
\* last call and what it returned, listed is what its discovery found,
\* sessions the list update_sessions_in_redis wrote last, from the length of
\* the channel when the last call began, events the number of ServiceEvents
\* delivered to the listener
NoClientCalls == [n |-> 0, op |-> None, result |-> None, listed |-> <<>>, sessions |-> <<>>,
                  from |-> 0, events |-> 0]

\* the limits push_initial_data gives
ProjectLimit == 20
SessionLimit == 50

\* the further project directories the store may hold
ProjectDirs ==
    {<<>>, <<1>>, <<SessionLimit + 1>>,
     [i \in 1..(ProjectLimit - 1) |-> 1], [i \in 1..ProjectLimit |-> 1],
     [i \in 1..(ProjectLimit + 1) |-> 1]}

NoCall == [pc |-> "idle", rid |-> None, chan |-> [st |-> None], result |-> [kind |-> None],
           how |-> None]

Init ==
    /\ connected = FALSE
    /\ client = 0
    /\ servers_up \in SUBSET Addrs
    /\ registry \in BOOLEAN
    /\ directory \in Listings
    \* with_registry takes the first listed server, or the fallback; new takes the url given
    /\ current_url \in IF registry
                       THEN {IF get_servers(directory) = <<>> THEN Url(Localhost)
                             ELSE Url(Head(get_servers(directory)))}
                       ELSE {Url(a) : a \in Addrs}
    /\ event_rx = <<>>
    /\ transports = [t \in Transports |-> [state |-> "unused", url |-> <<>>]]
    /\ sent = <<>>
    /\ phase = "new"
    /\ shared_db \in BOOLEAN
    /\ watching_sessions = {}
    /\ pending_approvals = [k \in {} |-> None]
    /\ sessions = [k \in {} |-> 0]
    /\ files \in [Sessions -> {NoFile, [exists |-> TRUE, bytes |-> OldContent]}]
    /\ callers = [c \in Callers |-> NoCall]
    /\ role = [p \in Procs |-> "Reader"]
    /\ heartbeat_cancel = [p \in Procs |-> FALSE]
    /\ heartbeat_handle = [p \in Procs |-> 0]
    /\ tasks = [p \in Procs |-> [t \in {} |-> None]]
    /\ store = NoLease
    /\ db_rows = {}
    /\ ack_calls = [c \in Callers |-> NoAck]
    /\ daemon_keys = [k \in {} |-> None]
    /\ channel = <<>>
    /\ servers_found = [called |-> FALSE, of |-> <<>>, got |-> <<>>]
    /\ reg_calls = [c \in Callers |-> NoRegCall]
    /\ path_trip = [path |-> <<"/">>, done |-> FALSE, encoded |-> <<>>, decoded |-> <<>>]
    /\ project_dirs \in ProjectDirs
    /\ keepalive_handle = 0
    /\ keepalive_tasks = {}
    /\ reconnect_rx = 0
    /\ listener = NoListener
    /\ cli = NoClientCalls
    /\ lines = [k \in 1..MaxLines |->
                    [sess |-> <<>>, owed |-> FALSE, whole |-> FALSE, fresh |-> FALSE]]
    /\ hist = [last_change |-> None, last_flag_change |-> None,
               reconnect |-> [done |-> FALSE, url |-> <<>>, listed |-> <<>>],
               dispatched |-> <<>>, opened |-> {}, result |-> None,
               poll |-> [before |-> <<>>, size |-> <<>>, after |-> <<>>, events |-> <<>>],
               op |-> [name |-> None, session |-> <<>>, trip |-> "no"],
               wanted |-> {},
               elect |-> [op |-> None, proc |-> None, result |-> None, at |-> 0],
               demoted |-> {},
               dropped |-> {},
               yielded |-> {},
               synced |-> {}]
    /\ budget = [lines |-> 0, fileops |-> 0, losses |-> 0, events |-> 0, elect |-> 0,
                 dirs |-> 0]

\* ------------------------------------------------------- DaemonService steps

\* the projects of the store, latest first, each with its number of sessions:
\* the project of the transcripts, then the further project directories
ProjectCounts ==
    LET n == Cardinality({s \in Sessions : files[s].exists})
    IN (IF n > 0 THEN <<n>> ELSE <<>>) \o project_dirs

\* ClaudeReader::list_projects: the listing, cut to the limit; a project is
\* named by its place in the listing
list_projects(limit) ==
    {i \in DOMAIN ProjectCounts : i <= limit}

\* the frames of push_initial_data's second step: the sessions of every
\* project that has some, grouped by project, each group cut to the session
\* limit; from is the next project to report
RECURSIVE report_sessions_by_project(_, _)
report_sessions_by_project(d, from) ==
    IF from > Len(ProjectCounts) THEN d
    ELSE report_sessions_by_project(
             IF ProjectCounts[from] = 0 THEN d
             ELSE emit(d, "daemon:sessionMetadata", None,
                       [project |-> from,
                        sessions |-> IF ProjectCounts[from] < SessionLimit
                                     THEN ProjectCounts[from] ELSE SessionLimit]),
             from + 1)

\* push_initial_data: the project list, then the sessions of each project
push_initial_data(d, io_ok) ==
    IF ~io_ok THEN d
    ELSE report_sessions_by_project(
             emit(d, "daemon:projectData", None,
                  [projects |-> list_projects(ProjectLimit)]), 1)

\* DaemonService::start
Start ==
    /\ phase = "new"
    /\ \E db_ok \in (IF shared_db THEN BOOLEAN ELSE {TRUE}), io_ok \in BOOLEAN :
         /\ InstallE(IF shared_db THEN SharedDb_register(CurE, Daemon, db_ok) ELSE CurE)
         /\ IF connect_result(Cur) # "Ok"
            THEN /\ phase' = "failed"
                 /\ io_ok
                 /\ Install(Cur)
            ELSE /\ phase' = "running"
                 /\ Install(push_initial_data(report_online(register(connect(Cur))), io_ok))
    /\ UNCHANGED <<extVars, current_url, event_rx, servers_up, directory, registry, shared_db,
                   files, budget>>

\* SocketClient::disconnect: the client is taken and closed, the flag cleared
disconnect(d) ==
    [d EXCEPT !.transports = IF d.client = 0 THEN @
                             ELSE [@ EXCEPT ![d.client].state = "dead"],
              !.client = 0,
              !.connected = FALSE,
              !.hist.last_change = "disconnect",
              !.hist.last_flag_change = "disconnect"]

\* DaemonService::stop
Stop ==
    /\ phase = "running"
    /\ \E db_ok \in (IF shared_db THEN BOOLEAN ELSE {TRUE}) :
         InstallE(IF shared_db THEN SharedDb_release(CurE, Daemon, db_ok) ELSE CurE)
    /\ Install(disconnect(report_offline(Cur)))
    /\ phase' = "stopped"
    /\ UNCHANGED <<extVars, current_url, event_rx, servers_up, directory, registry, shared_db,
                   files, budget>>

\* the iteration orders of the watcher's map
Orders(S) == {ord \in [1..Cardinality(S) -> S] : \A i, j \in DOMAIN ord : i # j => ord[i] # ord[j]}

\* the records the next poll finds
Pollable ==
    UNION {{r : r \in 1..Old} \cap
           {m : m \in {check_updates(sessions, ord).events[i].message :
                          i \in 1..Len(check_updates(sessions, ord).events)}} :
           ord \in Orders(DOMAIN sessions)}

\* DaemonService::run_once, one iteration of the event loop
RunOnce ==
    /\ phase = "running"
    /\ \E ord \in Orders(DOMAIN sessions),
          db_ok \in (IF shared_db /\ is_writer(Daemon) THEN SUBSET Pollable ELSE {{}}),
          io_ok \in (IF event_rx # <<>> /\ Head(event_rx).type \in
                          {"server:requestProjectData", "server:requestSessionMetadata"}
                     THEN BOOLEAN ELSE {TRUE}) :
         Install(run_once(Cur, ord, db_ok, io_ok))
    /\ event_rx' = IF event_rx = <<>> THEN event_rx ELSE Tail(event_rx)
    /\ UNCHANGED <<extVars, current_url, servers_up, directory, phase, registry, shared_db,
                   files, elecVars, budget>>


\* ------------------------------------------------- the transport callbacks

\* the "connect" callback of a transport, run when its handshake is acknowledged
OnConnect(t) ==
    /\ transports[t].state = "fresh"
    /\ Install([Cur EXCEPT !.transports[t].state = "alive",
                           !.connected = TRUE,
                           !.hist.last_change = "handshake",
                           !.hist.last_flag_change = "handshake"])
    /\ UNCHANGED <<extVars, current_url, event_rx, servers_up, directory, phase, registry,
                   shared_db, files, elecVars, budget>>

\* the "disconnect" callback: the transport is gone
OnDisconnect(t) ==
    /\ Alive(transports, t)
    /\ budget.losses < MaxLosses
    /\ Len(event_rx) < MaxQueue
    /\ Install([Cur EXCEPT !.transports[t].state = "dead",
                           !.connected = FALSE,
                           !.hist.last_change = "disconnect callback",
                           !.hist.last_flag_change = "disconnect callback"])
    /\ event_rx' = Append(event_rx, Disconnected)
    /\ budget' = [budget EXCEPT !.losses = @ + 1]
    /\ UNCHANGED <<extVars, current_url, servers_up, directory, phase, registry,
                   shared_db, files, elecVars>>

\* the "error" callback: the transport may or may not survive the error; the
\* acknowledgement of the handshake is the first thing a transport delivers,
\* so none follows an error
OnError(t) ==
    /\ Alive(transports, t)
    /\ budget.losses < MaxLosses
    /\ Len(event_rx) < MaxQueue
    /\ \E fatal \in BOOLEAN :
         Install([Cur EXCEPT !.transports[t].state = IF fatal THEN "dead" ELSE "alive",
                             !.connected = FALSE,
                             !.hist.last_change = "error callback",
                             !.hist.last_flag_change = "error callback"])
    /\ event_rx' = Append(event_rx, Disconnected)
    /\ budget' = [budget EXCEPT !.losses = @ + 1]
    /\ UNCHANGED <<extVars, current_url, servers_up, directory, phase, registry,
                   shared_db, files, elecVars>>

\* a server event callback: the event goes to the inbound queue
ServerSends(ev) ==
    /\ \E t \in Transports : Alive(transports, t)
    /\ budget.events < MaxEvents
    /\ Len(event_rx) < MaxQueue
    /\ event_rx' = Append(event_rx, ev)
    /\ budget' = [budget EXCEPT !.events = @ + 1]
    /\ UNCHANGED <<extVars, connected, client, current_url, transports, servers_up, directory,
                   sent, svcVars, tailVars, apprVars, elecVars, db_rows, hist>>

\* ----------------------------------------------------- the transcript files

LastByte(bytes) == IF bytes = <<>> THEN NL ELSE bytes[Len(bytes)]

\* what the writer of a transcript can append next: the whole or a part of
\* the next record, with or without its newline
Chunks(bytes) ==
    LET b == LastByte(bytes)
        k == budget.lines + 1
    IN IF b = NL
       THEN IF k <= MaxLines THEN {<<k>>, <<k, -k>>, <<k, -k, NL>>} ELSE {}
       ELSE IF b > 0 THEN {<<-b>>, <<-b, NL>>}
       ELSE {<<NL>>}

WriteBytes(s) ==
    /\ files[s].exists
    /\ \E chunk \in Chunks(files[s].bytes) :
         /\ files' = [files EXCEPT ![s].bytes = @ \o chunk]
         /\ IF chunk[1] > 0
            THEN /\ budget' = [budget EXCEPT !.lines = chunk[1]]
                 /\ lines' = [lines EXCEPT ![chunk[1]] =
                                  [sess |-> s, owed |-> s \in DOMAIN sessions,
                                   whole |-> Len(chunk) >= 2,
                                   fresh |-> s \in DOMAIN sessions]]
            ELSE UNCHANGED <<extVars, budget, lines>>
    /\ UNCHANGED <<extVars, sockVars, netVars, svcVars, sessions, apprVars, elecVars,
                   db_rows, sent, hist>>

\* rotation in place: the file is cut back to a shorter length
Truncate(s) ==
    /\ files[s].exists
    /\ budget.fileops < MaxFileOps
    /\ \E n \in 0..(Len(files[s].bytes) - 1) :
         /\ LastByte(SubSeq(files[s].bytes, 1, n)) = NL
         /\ files' = [files EXCEPT ![s].bytes = SubSeq(@, 1, n)]
    /\ lines' = Excuse(lines, {s})
    /\ budget' = [budget EXCEPT !.fileops = @ + 1]
    /\ UNCHANGED <<extVars, sockVars, netVars, svcVars, sessions, apprVars, elecVars,
                   db_rows, sent, hist>>

DeleteFile(s) ==
    /\ files[s].exists
    /\ budget.fileops < MaxFileOps
    /\ files' = [files EXCEPT ![s] = NoFile]
    /\ lines' = Excuse(lines, {s})
    /\ budget' = [budget EXCEPT !.fileops = @ + 1]
    /\ UNCHANGED <<extVars, sockVars, netVars, svcVars, sessions, apprVars, elecVars,
                   db_rows, sent, hist>>

CreateFile(s) ==
    /\ ~files[s].exists
    /\ files' = [files EXCEPT ![s] = [exists |-> TRUE, bytes |-> <<>>]]
    /\ UNCHANGED <<extVars, sockVars, netVars, svcVars, sessions, lines, apprVars, elecVars,
                   db_rows, sent, hist, budget>>


\* ----------------------------------------- DaemonService::request_approval
\* One call is the caller c walking through the function; the steps are cut
\* at its await points.

Without(f, k) == [x \in DOMAIN f \ {k} |-> f[x]]

\* HashMap::remove drops the PendingApproval it takes out, and with it the
\* sender: a call still waiting on that slot finds its channel closed
DropSender(cs, pa, request_id) ==
    [x \in Callers |->
        IF request_id \in DOMAIN pa /\ pa[request_id] = x /\ cs[x].chan.st = "open"
        THEN [cs[x] EXCEPT !.chan = [st |-> "closed"]]
        ELSE cs[x]]

\* an insert that keeps the replaced slot's sender alive
RA_InsertKeepingOld(c, request_id) ==
    /\ phase = "running"
    /\ callers[c].pc = "idle"
    /\ callers' = [callers EXCEPT ![c] = [NoCall EXCEPT !.pc = "sending", !.rid = request_id,
                                                       !.chan = [st |-> "open"]]]
    /\ pending_approvals' = [k \in DOMAIN pending_approvals \cup {request_id} |->
                                IF k = request_id THEN c ELSE pending_approvals[k]]
    /\ UNCHANGED <<extVars, sockVars, netVars, svcVars, tailVars, elecVars, db_rows, sent,
                   hist, budget>>

\* pending_approvals.insert: a slot of the same id is replaced, and the
\* sender of the replaced slot is dropped
RA_Insert(c, request_id) ==
    /\ phase = "running"
    /\ callers[c].pc = "idle"
    /\ LET prev == IF request_id \in DOMAIN pending_approvals
                   THEN {pending_approvals[request_id]} ELSE {}
       IN callers' = [x \in Callers |->
              IF x = c
              THEN [NoCall EXCEPT !.pc = "sending", !.rid = request_id,
                                  !.chan = [st |-> "open"]]
              ELSE IF x \in prev /\ callers[x].chan.st = "open"
                   THEN [callers[x] EXCEPT !.chan = [st |-> "closed"]]
                   ELSE callers[x]]
    /\ pending_approvals' = [k \in DOMAIN pending_approvals \cup {request_id} |->
                                IF k = request_id THEN c ELSE pending_approvals[k]]
    /\ UNCHANGED <<extVars, sockVars, netVars, svcVars, tailVars, elecVars, db_rows, sent,
                   hist, budget>>

\* send_approval_request(..).await?: an error returns at once
RA_Send(c) ==
    /\ callers[c].pc = "sending"
    /\ LET d == emit(Cur, "daemon:approvalRequest", callers[c].rid, c)
       IN Install([d EXCEPT !.callers[c] =
              IF emit_result(Cur) = "Ok"
              THEN [@ EXCEPT !.pc = "waiting"]
              ELSE [@ EXCEPT !.pc = "done", !.how = "send failed",
                             !.result = [kind |-> "Err"]]])
    /\ UNCHANGED <<extVars, current_url, event_rx, servers_up, directory, phase, registry,
                   shared_db, files, elecVars, budget>>

\* Ok(Ok(result)) => Ok(result)
RA_Recv(c) ==
    /\ callers[c].pc = "waiting"
    /\ callers[c].chan.st = "filled"
    /\ callers' = [callers EXCEPT ![c].pc = "done", ![c].how = "response",
                                  ![c].result = [kind |-> "Ok",
                                                 approved |-> callers[c].chan.approved,
                                                 reason |-> callers[c].chan.reason]]
    /\ UNCHANGED <<extVars, sockVars, netVars, svcVars, tailVars, pending_approvals, elecVars,
                   db_rows, sent, hist, budget>>

\* Ok(Err(_)): the sender was dropped
RA_Closed(c) ==
    /\ callers[c].pc = "waiting"
    /\ callers[c].chan.st = "closed"
    /\ pending_approvals' = Without(pending_approvals, callers[c].rid)
    /\ callers' = [DropSender(callers, pending_approvals, callers[c].rid)
                       EXCEPT ![c].pc = "done", ![c].how = "closed",
                              ![c].result = [kind |-> "Ok", approved |-> FALSE,
                                             reason |-> "Channel closed"]]
    /\ UNCHANGED <<extVars, sockVars, netVars, svcVars, tailVars, elecVars, db_rows, sent,
                   hist, budget>>

\* Err(_): the timer fired first; the receiver is dropped with the timeout future
RA_Timeout(c) ==
    /\ callers[c].pc = "waiting"
    /\ callers[c].chan.st = "open"
    /\ callers' = [callers EXCEPT ![c].pc = "timed out"]
    /\ UNCHANGED <<extVars, sockVars, netVars, svcVars, tailVars, pending_approvals, elecVars,
                   db_rows, sent, hist, budget>>

\* a timeout arm that forgets to remove the slot
RA_TimeoutKeep(c) ==
    /\ callers[c].pc = "timed out"
    /\ callers' = [callers EXCEPT ![c].pc = "timeout emit"]
    /\ UNCHANGED <<extVars, sockVars, netVars, svcVars, tailVars, pending_approvals, elecVars,
                   db_rows, sent, hist, budget>>

\* pending_approvals.write().await.remove(&request_id)
RA_TimeoutRemove(c) ==
    /\ callers[c].pc = "timed out"
    /\ pending_approvals' = Without(pending_approvals, callers[c].rid)
    /\ callers' = [DropSender(callers, pending_approvals, callers[c].rid)
                       EXCEPT ![c].pc = "timeout emit"]
    /\ UNCHANGED <<extVars, sockVars, netVars, svcVars, tailVars, elecVars, db_rows, sent,
                   hist, budget>>

\* send_approval_timeout(..).await?, then the result
RA_TimeoutEmit(c) ==
    /\ callers[c].pc = "timeout emit"
    /\ LET d == emit(Cur, "daemon:approvalTimeout", callers[c].rid, c)
       IN Install([d EXCEPT !.callers[c] =
              IF emit_result(Cur) = "Ok"
              THEN [@ EXCEPT !.pc = "done", !.how = "timeout",
                             !.result = [kind |-> "Ok", approved |-> FALSE,
                                         reason |-> "Request timeout"]]
              ELSE [@ EXCEPT !.pc = "done", !.how = "timeout",
                             !.result = [kind |-> "Err"]]])
    /\ UNCHANGED <<extVars, current_url, event_rx, servers_up, directory, phase, registry,
                   shared_db, files, elecVars, budget>>

\* ------------------------------------------------ the adapters' operations

\* what register, try_takeover and release return
register_result(e, p, db_ok) ==
    IF db_ok THEN register_writer(e.store, p).role ELSE "Err"
try_takeover_result(e, p, db_ok) ==
    IF ~db_ok THEN "Err"
    ELSE IF store_try_takeover(e.store, p).taken THEN "true" ELSE "false"
release_result(e, p, db_ok) == IF db_ok THEN "Ok" ELSE "Err"

\* history: the call made last and what it returned; a call that made the
\* adapter Writer ends the time since its heartbeat failed
Elected(op, p, result) ==
    [hist EXCEPT !.elect = [op |-> op, proc |-> p, result |-> result,
                            at |-> budget.elect + 1],
                 !.demoted = IF result \in {"Writer", "true"} THEN @ \ {p} ELSE @]

Register(p) ==
    /\ budget.elect < MaxElect
    /\ p \notin hist.dropped
    /\ \E db_ok \in BOOLEAN :
         /\ InstallE(SharedDb_register(CurE, p, db_ok))
         /\ hist' = Elected("register", p, register_result(CurE, p, db_ok))
    /\ budget' = [budget EXCEPT !.elect = @ + 1]
    /\ UNCHANGED <<extVars, sockVars, netVars, svcVars, tailVars, apprVars, db_rows, sent>>

TryTakeover(p) ==
    /\ budget.elect < MaxElect
    /\ p \notin hist.dropped
    /\ \E db_ok \in BOOLEAN :
         /\ InstallE(SharedDb_try_takeover(CurE, p, db_ok))
         /\ hist' = Elected("try_takeover", p, try_takeover_result(CurE, p, db_ok))
    /\ budget' = [budget EXCEPT !.elect = @ + 1]
    /\ UNCHANGED <<extVars, sockVars, netVars, svcVars, tailVars, apprVars, db_rows, sent>>

Release(p) ==
    /\ budget.elect < MaxElect
    /\ p \notin hist.dropped
    /\ \E db_ok \in BOOLEAN :
         /\ InstallE(SharedDb_release(CurE, p, db_ok))
         /\ hist' = Elected("release", p, release_result(CurE, p, db_ok))
    /\ budget' = [budget EXCEPT !.elect = @ + 1]
    /\ UNCHANGED <<extVars, sockVars, netVars, svcVars, tailVars, apprVars, db_rows, sent>>

\* the adapter is dropped: the flag is set and the task aborted, each if its
\* lock is free; no call is made on the adapter afterwards
Drop(p) ==
    /\ budget.elect < MaxElect
    /\ p \notin hist.dropped
    /\ \E flag_set, aborted \in BOOLEAN :
         /\ heartbeat_cancel' = [heartbeat_cancel EXCEPT ![p] = flag_set \/ @]
         /\ tasks' = IF aborted THEN [tasks EXCEPT ![p] = abort(@, heartbeat_handle[p])]
                      ELSE tasks
         /\ heartbeat_handle' = IF aborted THEN [heartbeat_handle EXCEPT ![p] = 0]
                                 ELSE heartbeat_handle
    /\ hist' = [Elected("drop", p, "Ok") EXCEPT !.dropped = @ \cup {p}]
    /\ budget' = [budget EXCEPT !.elect = @ + 1]
    /\ UNCHANGED <<extVars, sockVars, netVars, svcVars, tailVars, apprVars, role, store,
                   db_rows, sent>>

\* one turn of the heartbeat loop after its sleep: the cancel test, then the
\* heartbeat call
HeartbeatTick(p, t) ==
    /\ t \in DOMAIN tasks[p]
    /\ tasks[p][t] = "sleeping"
    /\ \E db_ok \in BOOLEAN :
         LET r == heartbeat(store, p) IN
         IF heartbeat_cancel[p]
         THEN /\ db_ok
              /\ tasks' = [tasks EXCEPT ![p] = Without(@, t)]
              /\ store' = store
              /\ hist' = hist
         ELSE IF db_ok /\ r.ok
              THEN /\ store' = r.store
                   /\ tasks' = tasks
                   /\ hist' = hist
              ELSE /\ store' = store
                   /\ tasks' = [tasks EXCEPT ![p][t] = "failed"]
                   /\ hist' = [hist EXCEPT !.demoted = @ \cup {p}]
    /\ UNCHANGED <<extVars, sockVars, netVars, svcVars, tailVars, apprVars, role,
                   heartbeat_cancel, heartbeat_handle, db_rows, sent, budget>>

\* an Err arm after which the task sleeps and goes round the loop again
HeartbeatDemoteAndRetry(p, t) ==
    /\ t \in DOMAIN tasks[p]
    /\ tasks[p][t] = "failed"
    /\ role' = [role EXCEPT ![p] = "Reader"]
    /\ tasks' = [tasks EXCEPT ![p][t] = "sleeping"]
    /\ UNCHANGED <<extVars, sockVars, netVars, svcVars, tailVars, apprVars, heartbeat_cancel,
                   heartbeat_handle, store, db_rows, sent, hist, budget>>

\* the Err arm of the heartbeat loop: the role is set to Reader and the task ends
HeartbeatDemote(p, t) ==
    /\ t \in DOMAIN tasks[p]
    /\ tasks[p][t] = "failed"
    /\ role' = [role EXCEPT ![p] = "Reader"]
    /\ tasks' = [tasks EXCEPT ![p] = Without(@, t)]
    /\ UNCHANGED <<extVars, sockVars, netVars, svcVars, tailVars, apprVars, heartbeat_cancel,
                   heartbeat_handle, store, db_rows, sent, hist, budget>>

\* the holder's last heartbeat grows older than the health check allows
LeaseExpires ==
    /\ store.holder # None
    /\ store.fresh
    /\ budget.elect < MaxElect
    /\ store' = [store EXCEPT !.fresh = FALSE]
    /\ budget' = [budget EXCEPT !.elect = @ + 1]
    /\ UNCHANGED <<extVars, sockVars, netVars, svcVars, tailVars, apprVars, role,
                   heartbeat_cancel, heartbeat_handle, tasks, db_rows, sent, hist>>


\* ------------------------------------------------------- the tailer alone
\* The daemon against one server, with transcripts written, cut and removed
\* and sessions watched and unwatched while the socket comes and goes.

InitTail ==
    /\ Init
    /\ project_dirs = <<>>
    /\ ~registry
    /\ ~shared_db
    /\ directory = <<>>
    /\ servers_up = {Localhost}
    /\ current_url = Url(Localhost)
    /\ files[S2] = NoFile

\* the sessions the server asks to watch, and whose transcripts are written
TailSessions == {S1}

WatchEvents ==
    {Event(type, [sessionId |-> s, projectPath |-> ProjectPath]) :
        type \in {"server:startWatching", "server:stopWatching"}, s \in TailSessions}

NextTail ==
    \/ Start
    \/ RunOnce
    \/ \E ev \in WatchEvents : ServerSends(ev)
    \/ \E t \in Transports : OnDisconnect(t)
    \/ \E s \in TailSessions : WriteBytes(s)
    \/ \E s \in TailSessions : Truncate(s)
    \/ \E s \in TailSessions : DeleteFile(s)
    \/ \E s \in TailSessions : CreateFile(s)

SpecTail == InitTail /\ [][NextTail]_vars

NewMessageFrames(k) ==
    {i \in DOMAIN sent : sent[i].event = "daemon:newMessage" /\ sent[i].val = k}

\* the watcher's offset of the record's session has moved past the record
Passed(k) ==
    /\ lines[k].sess \in DOMAIN sessions
    /\ \E i \in DOMAIN files[lines[k].sess].bytes :
         /\ files[lines[k].sess].bytes[i] = -k
         /\ sessions[lines[k].sess] >= i

\* C1: every complete record appended (in one write) to a session file while
\* the session is watched is carried by exactly one daemon:newMessage frame:
\* never by two, and by one as soon as the watcher's offset has moved past it;
\* stated of the runs in which no file was cut or removed
C1_ExactlyOneNewMessage ==
    budget.fileops = 0 =>
        \A k \in 1..MaxLines :
            (lines[k].owed /\ lines[k].whole) =>
                /\ Cardinality(NewMessageFrames(k)) <= 1
                /\ Passed(k) => Cardinality(NewMessageFrames(k)) = 1

\* C2: the stored offset of every watched session is at most the size of
\* its file
C2_OffsetWithinFile ==
    \A s \in DOMAIN sessions :
        FileOf(s).exists => sessions[s] <= Len(FileOf(s).bytes)


\* ------------------------------------------------------ the request events

InitReq ==
    /\ Init
    /\ project_dirs = <<>>
    /\ ~registry
    /\ ~shared_db
    /\ directory = <<>>
    /\ servers_up = {Localhost}
    /\ current_url = Url(Localhost)
    /\ files[S2] = NoFile

ReqEvents ==
    {Event(type, [requestId |-> r, sessionId |-> S1, projectPath |-> ProjectPath]) :
        type \in RequestEvents, r \in RequestIds}

NextReq ==
    \/ Start
    \/ RunOnce
    \/ \E ev \in ReqEvents : ServerSends(ev)
    \/ \E t \in Transports : OnDisconnect(t)

SpecReq == InitReq /\ [][NextReq]_vars

ResponseEvents ==
    {"daemon:projectData", "daemon:sessionMetadata", "daemon:sessionMessages",
     "daemon:sessionCreatedResult", "daemon:checkLoadingResult",
     "daemon:sendMessageResult"}

ResponseFrames(r) ==
    {i \in DOMAIN sent : sent[i].event \in ResponseEvents /\ sent[i].key = r}

Dispatches(r) == {i \in DOMAIN hist.dispatched : hist.dispatched[i] = r}

\* C3: every dispatched request event carrying a requestId R has been
\* answered by exactly one response frame with that requestId, once its
\* handler has run
C3_OneResponsePerRequest ==
    \A r \in RequestIds :
        Cardinality(ResponseFrames(r)) = Cardinality(Dispatches(r))

\* ----------------------------------------------------- the writer election
\* Two processes, each with a SharedDbAdapter over the same SharedStore.

InitElection ==
    /\ Init
    /\ project_dirs = <<>>
    /\ ~registry
    /\ shared_db
    /\ directory = <<>>
    /\ servers_up = {}
    /\ current_url = Url(Localhost)
    /\ \A s \in Sessions : files[s] = NoFile

NextElection ==
    \/ \E p \in Procs : Register(p)
    \/ \E p \in Procs : TryTakeover(p)
    \/ \E p \in Procs : Release(p)
    \/ \E p \in Procs : Drop(p)
    \/ \E p \in Procs, t \in TaskIds : HeartbeatTick(p, t)
    \/ \E p \in Procs, t \in TaskIds : HeartbeatDemote(p, t)
    \/ LeaseExpires

SpecElection == InitElection /\ [][NextElection]_vars

\* C4: no two adapters report is_writer() = true at once
C4_AtMostOneWriter ==
    \A p, q \in Procs : (is_writer(p) /\ is_writer(q)) => p = q


\* ------------------------------------------------------------- the socket
\* The daemon against one server that is up or down, while the transports
\* deliver their callbacks and the server asks for replies.

InitSocket ==
    /\ Init
    /\ project_dirs = <<>>
    /\ ~registry
    /\ ~shared_db
    /\ directory = <<>>
    /\ servers_up \subseteq {Localhost}
    /\ current_url = Url(Localhost)
    /\ \A s \in Sessions : files[s] = NoFile

PingEvents == {Event("server:checkLoading", [requestId |-> "r1"])}

NextSocket ==
    \/ Start
    \/ Stop
    \/ RunOnce
    \/ \E t \in Transports : OnConnect(t)
    \/ \E t \in Transports : OnDisconnect(t)
    \/ \E t \in Transports : OnError(t)
    \/ \E ev \in PingEvents : ServerSends(ev)

SpecSocket == InitSocket /\ [][NextSocket]_vars

DirectoryChange ==
    /\ budget.dirs < MaxDirChanges
    /\ \E l \in Listings \ {directory} : directory' = l
    /\ budget' = [budget EXCEPT !.dirs = @ + 1]
    /\ UNCHANGED <<extVars, sockVars, transports, servers_up, svcVars, tailVars, apprVars,
                   elecVars, db_rows, sent, hist>>

InitDiscovery ==
    /\ Init
    /\ project_dirs = <<>>
    /\ registry
    /\ ~shared_db
    /\ \A s \in Sessions : files[s] = NoFile

NextDiscovery ==
    \/ Start
    \/ RunOnce
    \/ \E t \in Transports : OnDisconnect(t)
    \/ \E t \in Transports : OnError(t)
    \/ DirectoryChange

SpecDiscovery == InitDiscovery /\ [][NextDiscovery]_vars

\* C7: in discovery mode a reconnect of run_once goes to the highest-priority
\* server the Directory lists at that moment
C7_ReconnectsToListedServer ==
    (registry /\ hist.reconnect.done /\ hist.reconnect.listed # <<>>) =>
        hist.reconnect.url = Url(Head(hist.reconnect.listed))


\* ------------------------------------------------------------ reconnection
\* The event loop keeps running (run_once is called again and again) and the
\* server accepts every handshake, while transports are lost.

InitReconnect ==
    /\ Init
    /\ project_dirs = <<>>
    /\ ~registry
    /\ ~shared_db
    /\ directory = <<>>
    /\ servers_up = {Localhost}
    /\ current_url = Url(Localhost)
    /\ \A s \in Sessions : files[s] = NoFile

NextReconnect ==
    \/ Start
    \/ RunOnce
    \/ \E t \in Transports : OnConnect(t)
    \/ \E t \in Transports : OnDisconnect(t)
    \/ \E t \in Transports : OnError(t)

SpecReconnect ==
    InitReconnect /\ [][NextReconnect]_vars /\ WF_vars(Start) /\ WF_vars(RunOnce)

\* the transport the client holds is gone
TransportLost ==
    /\ phase = "running"
    /\ client # 0
    /\ transports[client].state = "dead"

\* the client holds a live transport on which daemon:register and then
\* daemon:etermOnline were emitted
Reregistered ==
    /\ Alive(transports, client)
    /\ \E i, j \in DOMAIN sent :
         /\ i < j
         /\ sent[i].event = "daemon:register" /\ sent[i].t = client
         /\ sent[j].event = "daemon:etermOnline" /\ sent[j].t = client

\* C6: whenever the transport is lost, the daemon eventually holds a new
\* transport on which it has emitted daemon:register and then
\* daemon:etermOnline
C6_EventuallyReregistered == TransportLost ~> Reregistered


\* ------------------------------------------------------------ the approvals
\* Callers run request_approval while the server answers (in time, late,
\* twice or never) and the socket comes and goes.

InitApproval ==
    /\ Init
    /\ project_dirs = <<>>
    /\ ~registry
    /\ ~shared_db
    /\ directory = <<>>
    /\ servers_up = {Localhost}
    /\ current_url = Url(Localhost)
    /\ \A s \in Sessions : files[s] = NoFile

ApprovalEvents ==
    {Event("server:approvalResponse", [requestId |-> r, approved |-> a, reason |-> "why"]) :
        r \in ApprovalIds, a \in BOOLEAN}

NextApproval ==
    \/ Start
    \/ RunOnce
    \/ \E ev \in ApprovalEvents : ServerSends(ev)
    \/ \E t \in Transports : OnDisconnect(t)
    \/ \E c \in Callers, r \in ApprovalIds : RA_Insert(c, r)
    \/ \E c \in Callers : RA_Send(c)
    \/ \E c \in Callers : RA_Recv(c)
    \/ \E c \in Callers : RA_Closed(c)
    \/ \E c \in Callers : RA_Timeout(c)
    \/ \E c \in Callers : RA_TimeoutRemove(c)
    \/ \E c \in Callers : RA_TimeoutEmit(c)

SpecApproval == InitApproval /\ [][NextApproval]_vars

\* the step of run_once that handles an approvalResponse
HandlesResponse ==
    /\ phase = "running"
    /\ event_rx # <<>>
    /\ Head(event_rx).type = "server:approvalResponse"
    /\ event_rx' = Tail(event_rx)

ExpiredFrames(frames, r) ==
    {i \in DOMAIN frames : frames[i].event = "daemon:approvalExpired" /\ frames[i].key = r}

Filled(ev) == [st |-> "filled", approved |-> ev.approved, reason |-> ev.reason]

\* the step in which a caller returns what the server answered
ReturnsResponse(c) ==
    /\ callers[c].pc = "waiting"
    /\ callers'[c].pc = "done"
    /\ callers'[c].how = "response"

ReturnsChannelValue(c) ==
    /\ callers'[c].result.kind = "Ok"
    /\ callers'[c].result.approved = callers[c].chan.approved
    /\ callers'[c].result.reason = callers[c].chan.reason

OwnsSlot(c) ==
    /\ callers[c].rid \in DOMAIN pending_approvals
    /\ pending_approvals[callers[c].rid] = c

\* C9: once request_approval has returned, with whatever outcome, the pending
\* map holds no slot of that call
C9_NoSlotAfterReturn ==
    \A c \in Callers : callers[c].pc = "done" => ~OwnsSlot(c)

TimeoutFrames(c) ==
    {i \in DOMAIN sent : sent[i].event = "daemon:approvalTimeout"
                          /\ sent[i].key = callers[c].rid /\ sent[i].val = c}

\* C10 as stated: a call that timed out has removed its slot, has emitted
\* exactly one daemon:approvalTimeout frame and has returned approved = false
C10_TimeoutRemovesEmitsReturns ==
    \A c \in Callers :
        (callers[c].pc = "done" /\ callers[c].how = "timeout") =>
            /\ ~OwnsSlot(c)
            /\ Cardinality(TimeoutFrames(c)) = 1
            /\ callers[c].result.kind = "Ok"
            /\ ~callers[c].result.approved

\* C10 amended: a call that timed out has removed its slot; it has emitted
\* exactly one daemon:approvalTimeout frame and returned approved = false
\* when the socket accepted the frame, and has emitted none and returned the
\* emit error when it did not
C10_TimeoutRemovesThenEmitsIfAccepted ==
    \A c \in Callers :
        (callers[c].pc = "done" /\ callers[c].how = "timeout") =>
            /\ ~OwnsSlot(c)
            /\ IF callers[c].result.kind = "Ok"
               THEN /\ Cardinality(TimeoutFrames(c)) = 1
                    /\ ~callers[c].result.approved
                    /\ callers[c].result.reason = "Request timeout"
               ELSE Cardinality(TimeoutFrames(c)) = 0

\* a call has timed out, emitted its frame and returned
C10_TimedOutAndReported ==
    \E c \in Callers :
        /\ callers[c].pc = "done"
        /\ callers[c].how = "timeout"
        /\ callers[c].result.kind = "Ok"
        /\ TimeoutFrames(c) # {}


\* the calls that wait on a slot of request id r whose sender is still held
LiveSlots(r) ==
    {c \in Callers : /\ callers[c].rid = r
                     /\ ReceiverAlive(callers[c])
                     /\ callers[c].chan.st = "open"}

\* C11: for every request id at most one PendingApproval exists: at most one
\* call waits on a slot of that id whose sender is held, and that slot is the
\* one entry the pending map has for the id
C11_OneSlotPerRequestId ==
    \A r \in ApprovalIds :
        /\ Cardinality(LiveSlots(r)) <= 1
        /\ \A c \in LiveSlots(r) : OwnsSlot(c)

\* a second call has inserted a slot for a request id that had one: the
\* first call's sender is dropped and the map holds the second call's slot
C11_SlotReplaced ==
    \E c1, c2 \in Callers :
        /\ c1 # c2
        /\ callers[c1].rid = callers[c2].rid
        /\ callers[c1].pc = "waiting"
        /\ callers[c1].chan.st = "closed"
        /\ callers[c2].pc = "waiting"
        /\ OwnsSlot(c2)


\* ------------------------------------------------------ the session paths
\* The server sends events whose sessionId and projectPath are well-formed or
\* not.

InitPaths ==
    /\ Init
    /\ project_dirs = <<>>
    /\ ~registry
    /\ ~shared_db
    /\ directory = <<>>
    /\ servers_up = {Localhost}
    /\ current_url = Url(Localhost)
    /\ files[S2] = NoFile

\* session ids and project paths that pass the validation or break one of
\* its four rules
PathEvents ==
    {Event(type, [requestId |-> "r1", sessionId |-> s, projectPath |-> p]) :
        type \in {"server:startWatching", "server:requestSessionMessages"},
        s \in {S1, <<>>, <<".", ".">>, <<"/", "s">>, <<"NUL">>},
        p \in {ProjectPath, <<".", ".">>}}

NextPaths ==
    \/ Start
    \/ RunOnce
    \/ \E ev \in PathEvents : ServerSends(ev)
    \/ \E t \in Transports : OnDisconnect(t)

SpecPaths == InitPaths /\ [][NextPaths]_vars

\* C12: every segment of a session file path that was opened or watched had
\* passed the validation: the session id and the directory name derived from
\* projectPath are not empty, hold no "..", no leading "/" and no NUL
C12_PathSegmentsValidated ==
    \A path \in hist.opened :
        /\ validate_path_component(path.name)
        /\ validate_path_component(path.dir)

\* the step of run_once that takes an event from the queue and handles it
HandlesEvent ==
    /\ phase = "running"
    /\ event_rx # <<>>
    /\ event_rx' = Tail(event_rx)

\* the frames the step appends are those of the watcher's poll
OnlyPollFrames ==
    \A i \in (Len(sent) + 1)..Len(sent') :
        sent'[i].event \in {"daemon:newMessage", "daemon:sessionDeleted"}

\* C13: a step of run_once whose handler fails (rejected input, store error,
\* emit error) emits no frame of the handler, leaves the daemon running, and
\* leaves the connected flag, the client and the transports as they were
C13_HandlerFailureConfined ==
    [][(HandlesEvent /\ hist'.result # "Ok") =>
            /\ OnlyPollFrames
            /\ phase' = "running"
            /\ connected' = connected
            /\ client' = client
            /\ transports' = transports]_vars

\* a request was rejected by the validation, and the daemon runs on,
\* connected, with the frames of its start only
C13_RejectedAndRunning ==
    /\ hist.result = "InvalidInput"
    /\ phase = "running"
    /\ is_connected(Cur)
    /\ Alive(transports, client)
    /\ \A i \in DOMAIN sent : sent[i].key = None

\* ------------------------------------------------------ partial lines

\* the number of bytes before the last line of the file
LineStart(bytes) ==
    CHOOSE n \in 0..Len(bytes) :
        /\ n = 0 \/ bytes[n] = NL
        /\ \A i \in (n + 1)..Len(bytes) : bytes[i] # NL

\* the file ends in bytes that no newline follows
EndsPartial(bytes) == bytes # <<>> /\ LastByte(bytes) # NL

\* a poll of session s, whose file ends in a partial line the offset has not
\* entered, keeps the offset at or before the line's first byte and emits no
\* daemon:newMessage for the line
PartialKept(s) ==
    (/\ event_rx = <<>>
     /\ s \in DOMAIN sessions
     /\ files[s].exists
     /\ EndsPartial(files[s].bytes)
     /\ sessions[s] <= LineStart(files[s].bytes)) =>
        /\ s \in DOMAIN sessions' => sessions'[s] <= LineStart(files[s].bytes)
        /\ \A i \in (Len(sent) + 1)..Len(sent') :
              ~(/\ sent'[i].event = "daemon:newMessage"
                /\ sent'[i].val = files[s].bytes[LineStart(files[s].bytes) + 1])

\* the watcher's offset has moved past record k and its newline
Consumed(k) ==
    /\ lines[k].sess \in DOMAIN sessions
    /\ \E i \in DOMAIN files[lines[k].sess].bytes :
         /\ files[lines[k].sess].bytes[i] = -k
         /\ i < Len(files[lines[k].sess].bytes)
         /\ files[lines[k].sess].bytes[i + 1] = NL
         /\ sessions[lines[k].sess] >= i + 1

\* a record written in parts while its session is watched is carried by
\* exactly one daemon:newMessage once a poll has consumed its completed line
CompletedOnce ==
    budget.fileops = 0 =>
        \A k \in 1..MaxLines :
            (lines[k].owed /\ ~lines[k].whole /\ Consumed(k)) =>
                Cardinality(NewMessageFrames(k)) = 1

\* C14: a poll that finds a partial last line leaves the offset at or before
\* the line's first byte and emits nothing for it, and after the line is
\* completed a later poll emits exactly one NewMessage for it
C14_PartialLineReadWhenComplete ==
    [][(\A s \in TailSessions : PartialKept(s)) /\ CompletedOnce']_vars

\* ------------------------------------------------- the SessionWatcher alone
\* A SessionWatcher called directly (watch_session, unwatch_session,
\* check_updates) while its transcripts are written, cut and removed.

\* the size of every watched file as a poll finds it, -1 without a file
SizesSeen(sess) ==
    [s \in DOMAIN sess |-> IF FileOf(s).exists THEN Len(FileOf(s).bytes) ELSE -1]

\* history: the records of session s written so far were not appended after
\* the present call
Stale(ls, s) ==
    [k \in DOMAIN ls |->
        IF ls[k].sess = s THEN [ls[k] EXCEPT !.owed = FALSE, !.fresh = FALSE] ELSE ls[k]]

WatchSession(s) ==
    /\ phase = "new"
    /\ sessions' = watch_session(sessions, s)
    /\ lines' = Stale(lines, s)
    /\ hist' = [hist EXCEPT !.op = [name |-> "watch", session |-> s, trip |-> "no"]]
    /\ UNCHANGED <<extVars, sockVars, netVars, svcVars, files, apprVars, elecVars,
                   db_rows, sent, budget>>

UnwatchSession(s) ==
    /\ phase = "new"
    /\ sessions' = unwatch_session(sessions, s)
    /\ lines' = Stale(lines, s)
    /\ hist' = [hist EXCEPT !.op = [name |-> "unwatch", session |-> s,
                                     trip |-> IF /\ hist.op.name = "watch"
                                                 /\ hist.op.session = s
                                                 /\ DOMAIN sessions = {s}
                                              THEN "done" ELSE "no"]]
    /\ UNCHANGED <<extVars, sockVars, netVars, svcVars, files, apprVars, elecVars,
                   db_rows, sent, budget>>

\* check_updates; history: what the poll found and what it returned, and
\* whether it follows a watch_session(k) and unwatch_session(k) on a watcher
\* that watched nothing else
CheckUpdates ==
    /\ phase = "new"
    /\ \E ord \in Orders(DOMAIN sessions) :
         LET r == check_updates(sessions, ord) IN
         /\ sessions' = r.sessions
         /\ lines' = Excuse(lines, r.deleted)
         /\ hist' = [hist EXCEPT !.poll = [before |-> sessions,
                                           size |-> SizesSeen(sessions),
                                           after |-> r.sessions,
                                           events |-> r.events],
                                 !.op = [name |-> "poll", session |-> <<>>,
                                         trip |-> IF hist.op.trip = "done"
                                                  THEN "polled" ELSE "no"]]
    /\ UNCHANGED <<extVars, sockVars, netVars, svcVars, files, apprVars, elecVars,
                   db_rows, sent, budget>>

InitWatcher ==
    /\ Init
    /\ project_dirs = <<>>
    /\ ~registry
    /\ ~shared_db
    /\ directory = <<>>
    /\ servers_up = {}
    /\ current_url = Url(Localhost)
    /\ files[S2] = NoFile

NextWatcher ==
    \/ \E s \in Sessions : WatchSession(s)
    \/ \E s \in Sessions : UnwatchSession(s)
    \/ CheckUpdates
    \/ \E s \in TailSessions : WriteBytes(s)
    \/ \E s \in TailSessions : Truncate(s)
    \/ \E s \in TailSessions : DeleteFile(s)
    \/ \E s \in TailSessions : CreateFile(s)

SpecWatcher == InitWatcher /\ [][NextWatcher]_vars

\* the events the last poll returned for session s
PollEvents(s) ==
    {i \in DOMAIN hist.poll.events : hist.poll.events[i].session_id = s}

\* C15: a poll that found a watched file smaller than the stored offset has
\* reset the offset to the file's size and returned no event for the session
C15_TruncationResetsOffset ==
    \A s \in DOMAIN hist.poll.before :
        (hist.poll.size[s] >= 0 /\ hist.poll.size[s] < hist.poll.before[s]) =>
            /\ hist.poll.after[s] = hist.poll.size[s]
            /\ PollEvents(s) = {}

\* the step is a call of the watcher's operation op that changed something
WatcherStep(op) ==
    /\ hist'.op.name = op
    /\ hist' # hist \/ sessions' # sessions

\* a record appended to the file of session s after the latest watch of s
AppendedSinceWatch(m, s) ==
    /\ m \in 1..MaxLines
    /\ lines[m].sess = s
    /\ lines[m].fresh

\* C16: watch_session stores the file's length at the call (0 without a
\* file), and every NewMessage a poll returns carries a record appended after
\* the watch call, never content the file already had
C16_WatchStartsAtEndOfFile ==
    [][/\ WatcherStep("watch") =>
            LET s == hist'.op.session IN
            sessions'[s] = IF files[s].exists THEN Len(files[s].bytes) ELSE 0
       /\ WatcherStep("poll") =>
            \A i \in DOMAIN hist'.poll.events :
                hist'.poll.events[i].kind = "NewMessage" =>
                    AppendedSinceWatch(hist'.poll.events[i].message,
                                       hist'.poll.events[i].session_id)]_vars

\* a session was watched on a file that had content, and the last poll
\* returned a NewMessage for it
C16_AppendedLineFound ==
    \E s \in DOMAIN hist.poll.before :
        /\ hist.poll.before[s] >= Len(OldContent)
        /\ \E i \in DOMAIN hist.poll.events :
             /\ hist.poll.events[i].kind = "NewMessage"
             /\ hist.poll.events[i].session_id = s

\* ---------------------------------------------------------- stopWatching

\* the frames the step appends
NewFrames == {i \in DOMAIN sent' : i > Len(sent)}

\* C17: a daemon:newMessage or daemon:sessionDeleted frame for a session is
\* emitted only by an iteration that began while the session's last watch
\* event was a startWatching: after stopWatching is handled no append or
\* deletion produces a frame, until startWatching is handled again
C17_SilentAfterStopWatching ==
    [][\A i \in NewFrames :
           sent'[i].event \in {"daemon:newMessage", "daemon:sessionDeleted"} =>
               sent'[i].key \in hist.wanted]_vars

\* a session was watched and reported a record, stopWatching was handled,
\* and a record appended afterwards was not reported
C17_StoppedThenAppended ==
    \E s \in TailSessions, k1, k2 \in 1..MaxLines :
        /\ s \notin hist.wanted
        /\ s \notin DOMAIN sessions
        /\ event_rx = <<>>
        /\ k1 < k2
        /\ lines[k1].sess = s /\ NewMessageFrames(k1) # {}
        /\ lines[k2].sess = s /\ ~lines[k2].fresh /\ NewMessageFrames(k2) = {}
        /\ files[s].exists /\ \E i \in DOMAIN files[s].bytes : files[s].bytes[i] = -k2

\* -------------------------------------------------------- order of frames

\* the daemon:newMessage frames of session s, as indices of sent
MessageFramesOf(s) ==
    {i \in DOMAIN sent : sent[i].event = "daemon:newMessage" /\ sent[i].key = s}

\* C18: the daemon:newMessage frames of one session are emitted in the order
\* of their lines in the file (records are numbered in the order they are
\* appended), within one poll and across iterations of run_once
C18_FramesInFileOrder ==
    \A s \in TailSessions : \A i, j \in MessageFramesOf(s) :
        i < j => sent[i].val < sent[j].val

\* two records of one session have been reported
C18_TwoRecordsReported ==
    \E s \in TailSessions : \E i, j \in MessageFramesOf(s) :
        /\ i < j
        /\ lines[sent[i].val].sess = s /\ lines[sent[j].val].sess = s
        /\ sent[i].val # sent[j].val

\* ------------------------------------------------- watch and unwatch

\* C19: after watch_session(k, p, _) immediately followed by
\* unwatch_session(k), on a watcher that watched nothing else, nothing is
\* watched (session_count is 0, has_sessions is false), and the poll that
\* follows returns no events and emits no frame
C19_WatchUnwatchLeavesNothing ==
    /\ hist.op.trip = "done" =>
           session_count(sessions) = 0 /\ ~has_sessions(sessions)
    /\ hist.op.trip = "polled" =>
           /\ hist.poll.events = <<>>
           /\ session_count(sessions) = 0 /\ ~has_sessions(sessions)
           /\ sent = <<>>

\* the round trip was made on a file with a record in it, a record was
\* appended, and the watcher was polled
C19_PolledAfterRoundTrip ==
    /\ hist.op.trip = "polled"
    /\ hist.op.name = "poll"
    /\ \E k \in 1..MaxLines : lines[k].sess = S1 /\ lines[k].whole
    /\ files[S1].exists /\ Len(files[S1].bytes) > 0

\* ------------------------------------------------------------------ emit

\* the state after an emit in the current state
AfterEmit == emit(Cur, "daemon:checkLoadingResult", "r1", FALSE)

\* C20: while there is no established session (no client, or is_connected()
\* false after disconnect() or a disconnect or error callback) emit fails
\* with NotConnected and forwards no frame; otherwise it forwards exactly
\* one frame to the transport
C20_EmitNeedsEstablishedSession ==
    IF client = 0 \/ ~is_connected(Cur)
    THEN emit_result(Cur) = "NotConnected" /\ AfterEmit.sent = sent
    ELSE /\ Len(AfterEmit.sent) = Len(sent) + 1
         /\ AfterEmit.sent[Len(sent) + 1].t = client

\* --------------------------------------------------------- emit_with_ack
\* SocketClient::emit_with_ack hands the frame and a callback to the
\* transport library and then waits on a oneshot channel, with no deadline of
\* its own. The library runs the callback when the server's ack arrives
\* before the deadline, and otherwise keeps or discards it.

DefaultAck == "success: true"
AckPayloads == {"text", "empty text", "binary"}

\* the value the ack callback sends: the first value of a text payload
ack_value(payload) == IF payload = "text" THEN "reply" ELSE DefaultAck

\* the call up to the return of the library's emit_with_ack
EWA_Send(c) ==
    /\ ack_calls[c].pc = "idle"
    /\ IF emit_result(Cur) = "Ok"
       THEN /\ sent' = Append(sent, Frame("emit_with_ack", c, None, client))
            /\ ack_calls' = [ack_calls EXCEPT ![c].pc = "waiting",
                                              ![c].callback = "registered",
                                              ![c].chan = "open"]
       ELSE /\ ack_calls' = [ack_calls EXCEPT ![c].pc = "done",
                                              ![c].result = emit_result(Cur)]
            /\ UNCHANGED sent
    /\ UNCHANGED <<sockVars, netVars, svcVars, tailVars, apprVars, elecVars,
                   db_rows, hist, budget, regVars, pathVars, storeVars, cliVars>>

\* the server's ack arrives before the deadline: the library runs the callback
EWA_Callback(c, payload) ==
    /\ ack_calls[c].callback = "registered"
    /\ ~ack_calls[c].late
    /\ ack_calls' = [ack_calls EXCEPT ![c].callback = "run",
                                      ![c].replied = TRUE,
                                      ![c].chan = ack_value(payload)]
    /\ UNCHANGED <<daemonVars, regVars, pathVars, storeVars, cliVars>>

\* the deadline passes without an ack
EWA_Deadline(c) ==
    /\ ack_calls[c].callback = "registered"
    /\ ~ack_calls[c].late
    /\ ack_calls' = [ack_calls EXCEPT ![c].late = TRUE]
    /\ UNCHANGED <<daemonVars, regVars, pathVars, storeVars, cliVars>>

\* the library discards the callback without running it (an ack that comes
\* after the deadline, or the library's client going away): the sender is
\* dropped with it
EWA_Discard(c) ==
    /\ ack_calls[c].callback = "registered"
    /\ ack_calls' = [ack_calls EXCEPT ![c].callback = "dropped",
                                      ![c].chan = "closed"]
    /\ UNCHANGED <<daemonVars, regVars, pathVars, storeVars, cliVars>>

\* rx.await completes
EWA_Return(c) ==
    /\ ack_calls[c].pc = "waiting"
    /\ ack_calls[c].chan # "open"
    /\ ack_calls' = [ack_calls EXCEPT ![c].pc = "done",
                                      ![c].result = IF ack_calls[c].chan = "closed"
                                                    THEN DefaultAck
                                                    ELSE ack_calls[c].chan]
    /\ UNCHANGED <<daemonVars, regVars, pathVars, storeVars, cliVars>>

InitAck == InitSocket

NextAck ==
    \/ Start
    \/ \E t \in Transports : OnDisconnect(t)
    \/ \E c \in Callers : EWA_Send(c)
    \/ \E c \in Callers, payload \in AckPayloads : EWA_Callback(c, payload)
    \/ \E c \in Callers : EWA_Deadline(c)
    \/ \E c \in Callers : EWA_Discard(c)
    \/ \E c \in Callers : EWA_Return(c)

SpecAck == InitAck /\ [][NextAck]_vars

\* C21: once the frame is sent, emit_with_ack returns the server's ack
\* payload when the ack arrived before the deadline, returns the default
\* only when the channel closed without a reply, and fails with AckTimeout
\* when the deadline passed without an ack
C21_ThreeAckOutcomes ==
    \A c \in Callers :
        (ack_calls[c].pc = "done" /\ ack_calls[c].callback # None) =>
            /\ ack_calls[c].replied => ack_calls[c].result = "reply"
            /\ ack_calls[c].result = DefaultAck =>
                   ~ack_calls[c].replied /\ ~ack_calls[c].late
            /\ (ack_calls[c].late /\ ~ack_calls[c].replied) =>
                   ack_calls[c].result = "AckTimeout"

\* ------------------------------------------------------------ get_servers
\* ServiceRegistry::get_servers alone, on listings of up to MaxListing keys

\* a server registers: KEYS lists its key last
ServerRegisters(a) ==
    /\ Len(directory) < MaxListing
    /\ directory' = Append(directory, a)
    /\ UNCHANGED <<sockVars, transports, servers_up, svcVars, tailVars, apprVars,
                   elecVars, db_rows, sent, hist, budget, extVars>>

GetServers ==
    /\ servers_found' = [called |-> TRUE, of |-> directory, got |-> get_servers(directory)]
    /\ UNCHANGED <<daemonVars, ackVars, pathVars, storeVars, cliVars, daemon_keys, channel, reg_calls>>

InitServers ==
    /\ Init
    /\ project_dirs = <<>>
    /\ registry
    /\ ~shared_db
    /\ directory = <<>>
    /\ servers_up = {}
    /\ \A s \in Sessions : files[s] = NoFile

NextServers ==
    \/ \E a \in ServerAddrs : ServerRegisters(a)
    \/ GetServers

SpecServers == InitServers /\ [][NextServers]_vars

\* the priorities as the specification lists them
ListedPriority ==
    (Localhost :> 3) @@ (LoopbackAddr :> 3) @@ (LanAddr :> 2) @@ (PrivateAddr :> 2)
    @@ (DockerAddr :> 2) @@ (PublicAddr :> 1)

\* got is a rearrangement of of in which priorities never rise and addresses
\* of one priority keep their order
StableDescending(of, got) ==
    /\ Len(got) = Len(of)
    /\ \E pi \in Orders(DOMAIN of) :
          /\ \A i \in DOMAIN got : got[i] = of[pi[i]]
          /\ \A i, j \in DOMAIN got :
                i < j => \/ ListedPriority[got[i]] > ListedPriority[got[j]]
                         \/ /\ ListedPriority[got[i]] = ListedPriority[got[j]]
                            /\ pi[i] < pi[j]

\* C22: get_servers returns the stored addresses in descending priority
\* (3 for localhost and 127.0.0.1, 2 for 192.168., 10. and 172., 1 otherwise),
\* addresses of one priority in listing order
C22_ServersByPriorityStable ==
    /\ \A a \in ServerAddrs : get_priority(a) = ListedPriority[a]
    /\ servers_found.called => StableDescending(servers_found.of, servers_found.got)

\* a listing with a public address first and two private ones behind it
C22_TiesKeptBehindHigher ==
    /\ servers_found.called
    /\ servers_found.of = <<PublicAddr, LanAddr, PrivateAddr>>
    /\ servers_found.got = <<LanAddr, PrivateAddr, PublicAddr>>

\* -------------------------------------------- ServiceRegistry: daemon keys
\* Each function is a sequence of Directory commands; every command is one
\* step, so that other callers and the expiry of keys fall between them.
\* The functions are written over a record g holding the keys, the channel
\* and the call.

Devices == {"d1", "d2"}
SessionLists == {<<>>, <<S1>>}
\* the time to live every call asks for, in periods after which a key ages
Ttl == 2
\* the DaemonInfo register_daemon_to_redis builds at time at
DaemonInfo(dev, at) ==
    [device_id |-> dev, device_name |-> "mac", platform |-> "macos", version |-> "v1",
     sessions |-> <<>>, registered_at |-> at]

\* GET / EXISTS of the daemon key
KeyOf(keys, dev) ==
    IF dev \in DOMAIN keys
    THEN [present |-> TRUE, value |-> keys[dev].value, ttl |-> keys[dev].ttl]
    ELSE NoKey

\* SET key value EX ttl
set_ex(keys, dev, value, ttl) ==
    [k \in DOMAIN keys \cup {dev} |->
        IF k = dev THEN [value |-> value, ttl |-> ttl] ELSE keys[k]]

\* DEL key
del(keys, dev) == [k \in DOMAIN keys \ {dev} |-> keys[k]]

\* EXPIRE key ttl: nothing happens to a key that does not exist
expire(keys, dev, ttl) ==
    [k \in DOMAIN keys |-> IF k = dev THEN [keys[k] EXCEPT !.ttl = ttl] ELSE keys[k]]

ServiceEvent(type, device_id, sess, c) ==
    [type |-> type, device_id |-> device_id, sessions |-> sess, by |-> c]

\* publish_event, and the return of Ok(()) that follows it
publish_event(g, type, sess, c) ==
    [g EXCEPT !.channel = Append(@, ServiceEvent(type, g.call.dev, sess, c)),
              !.call.published = @ + 1,
              !.call.pc = "done",
              !.call.result = "Ok"]

Fail(g, error) == [g EXCEPT !.call.pc = "done", !.call.result = error]

\* the key command of a call: history keeps what it left
Wrote(g, keys) ==
    [g EXCEPT !.daemon_keys = keys,
              !.call.key = KeyOf(keys, g.call.dev),
              !.call.wrote = TRUE,
              !.call.pc = "publish"]

register_daemon(g, c) ==
    IF g.call.pc = "set_ex"
    THEN Wrote(g, set_ex(g.daemon_keys, g.call.dev, g.call.info, g.call.ttl))
    ELSE publish_event(g, "online", g.call.info.sessions, c)

\* an unregister_daemon that publishes offline and leaves the key
unregister_daemon_keeping_key(g, c) ==
    IF g.call.pc = "del"
    THEN Wrote(g, g.daemon_keys)
    ELSE publish_event(g, "offline", <<>>, c)

unregister_daemon(g, c) ==
    IF g.call.pc = "del"
    THEN Wrote(g, del(g.daemon_keys, g.call.dev))
    ELSE publish_event(g, "offline", <<>>, c)

keep_alive_daemon(g, c) ==
    IF g.call.pc = "exists"
    THEN IF g.call.dev \in DOMAIN g.daemon_keys
         THEN [g EXCEPT !.call.pc = "expire"]
         ELSE Fail(g, "Daemon not found, need re-register")
    ELSE LET keys == expire(g.daemon_keys, g.call.dev, g.call.ttl)
         IN [g EXCEPT !.daemon_keys = keys,
                      !.call.key = KeyOf(keys, g.call.dev),
                      !.call.pc = "done",
                      !.call.result = "Ok"]

\* an update_daemon_sessions that writes a new entry around the sessions
update_daemon_sessions_rebuilding(g, c) ==
    IF g.call.pc = "get"
    THEN IF g.call.dev \in DOMAIN g.daemon_keys
         THEN [g EXCEPT !.call.read = g.daemon_keys[g.call.dev].value,
                        !.call.pc = "set_ex"]
         ELSE Fail(g, "Daemon not found")
    ELSE IF g.call.pc = "set_ex"
    THEN Wrote(g, set_ex(g.daemon_keys, g.call.dev,
                         [g.call.read EXCEPT !.sessions = g.call.sessions,
                                             !.registered_at = 0],
                         g.call.ttl))
    ELSE publish_event(g, "session_update", g.call.sessions, c)

update_daemon_sessions(g, c) ==
    IF g.call.pc = "get"
    THEN IF g.call.dev \in DOMAIN g.daemon_keys
         THEN [g EXCEPT !.call.read = g.daemon_keys[g.call.dev].value,
                        !.call.pc = "set_ex"]
         ELSE Fail(g, "Daemon not found")
    ELSE IF g.call.pc = "set_ex"
    THEN Wrote(g, set_ex(g.daemon_keys, g.call.dev,
                         [g.call.read EXCEPT !.sessions = g.call.sessions],
                         g.call.ttl))
    ELSE publish_event(g, "session_update", g.call.sessions, c)

RegistryOps == {"register_daemon", "unregister_daemon", "keep_alive_daemon",
                "update_daemon_sessions"}
FirstCommand ==
    [op \in RegistryOps |->
        CASE op = "register_daemon" -> "set_ex"
          [] op = "unregister_daemon" -> "del"
          [] op = "keep_alive_daemon" -> "exists"
          [] OTHER -> "get"]

\* a caller enters one of the functions; the time is the number of its call
RegCall(c, op, dev, sess) ==
    LET last == reg_calls[c]
        trip == /\ op = "unregister_daemon"
                /\ last.op = "register_daemon" /\ last.result = "Ok" /\ last.dev = dev
    IN
    /\ last.pc \in {"idle", "done"}
    /\ last.n < MaxRegCalls
    /\ op # "update_daemon_sessions" => sess = <<>>
    /\ reg_calls' = [reg_calls EXCEPT ![c] =
            [NoRegCall EXCEPT !.op = op, !.pc = FirstCommand[op], !.dev = dev,
                              !.ttl = IF op = "unregister_daemon" THEN 0 ELSE Ttl,
                              !.sessions = sess,
                              !.info = IF op = "register_daemon"
                                       THEN DaemonInfo(dev, last.n + 1) ELSE NoInfo,
                              !.n = last.n + 1,
                              !.trip = trip,
                              !.from = IF trip THEN last.from ELSE Len(channel),
                              !.alone = IF trip THEN last.alone ELSE TRUE]]
    /\ UNCHANGED <<daemonVars, ackVars, pathVars, storeVars, cliVars, daemon_keys, channel, servers_found>>

\* the next command of the call of c
RegStep(c) ==
    LET g0 == [daemon_keys |-> daemon_keys, channel |-> channel, call |-> reg_calls[c]]
        g == CASE reg_calls[c].op = "register_daemon" -> register_daemon(g0, c)
               [] reg_calls[c].op = "unregister_daemon" -> unregister_daemon(g0, c)
               [] reg_calls[c].op = "keep_alive_daemon" -> keep_alive_daemon(g0, c)
               [] OTHER -> update_daemon_sessions(g0, c)
    IN
    /\ reg_calls[c].pc \notin {"idle", "done"}
    /\ daemon_keys' = g.daemon_keys
    /\ channel' = g.channel
    /\ reg_calls' = [o \in Callers |->
            IF o = c THEN g.call
            ELSE IF reg_calls[o].dev = reg_calls[c].dev /\ g.daemon_keys # daemon_keys
                 THEN [reg_calls[o] EXCEPT !.alone = FALSE]
                 ELSE reg_calls[o]]
    /\ UNCHANGED <<daemonVars, ackVars, pathVars, storeVars, cliVars, servers_found>>

\* a period passes for a key: its TTL runs down, and out
KeyAges(dev) ==
    /\ dev \in DOMAIN daemon_keys
    /\ daemon_keys' = IF daemon_keys[dev].ttl > 1
                      THEN [daemon_keys EXCEPT ![dev].ttl = @ - 1]
                      ELSE del(daemon_keys, dev)
    /\ UNCHANGED <<daemonVars, ackVars, pathVars, storeVars, cliVars, channel, servers_found, reg_calls>>

InitRegistry == InitServers

NextRegistry ==
    \/ \E c \in Callers, op \in RegistryOps, dev \in Devices, sess \in SessionLists :
            RegCall(c, op, dev, sess)
    \/ \E c \in Callers : RegStep(c)
    \/ \E dev \in Devices : KeyAges(dev)

SpecRegistry == InitRegistry /\ [][NextRegistry]_vars

\* the calls of op that have returned
Returned(op) == {c \in Callers : reg_calls[c].op = op /\ reg_calls[c].pc = "done"}

\* the events the call of c has published since reg_calls[c].from
PublishedBy(c) ==
    SelectSeq(SubSeq(channel, reg_calls[c].from + 1, Len(channel)),
              LAMBDA ev : ev.by = c)

\* C23: keep_alive_daemon returns Ok only if its expire command left the
\* key in place with the TTL asked for; when it fails it has created no key
\* and published nothing
C23_KeepAliveOnlyOnLiveKey ==
    \A c \in Returned("keep_alive_daemon") :
        IF reg_calls[c].result = "Ok"
        THEN reg_calls[c].key.present /\ reg_calls[c].key.ttl = reg_calls[c].ttl
        ELSE ~reg_calls[c].wrote /\ reg_calls[c].published = 0

RoundTrips ==
    {c \in Returned("unregister_daemon") :
        reg_calls[c].trip /\ reg_calls[c].alone /\ reg_calls[c].result = "Ok"}

\* C25: register_daemon immediately followed by unregister_daemon of the
\* same device leaves no key for the device, and the two calls publish
\* exactly one online and then one offline event, both naming the device
C25_RegisterUnregisterLeavesNothing ==
    \A c \in RoundTrips :
        /\ reg_calls[c].dev \notin DOMAIN daemon_keys
        /\ ~reg_calls[c].key.present
        /\ PublishedBy(c) = <<ServiceEvent("online", reg_calls[c].dev, <<>>, c),
                              ServiceEvent("offline", reg_calls[c].dev, <<>>, c)>>

\* a round trip during which another caller published for the other device
C25_RoundTripAmongOthers ==
    \E c \in RoundTrips :
        /\ Len(channel) > reg_calls[c].from + 2
        /\ \E d \in DOMAIN daemon_keys : d # reg_calls[c].dev

\* ------------------------------------------------- encode and decode
\* encode_path and decode_path alone, on the paths of up to MaxPathLen
\* characters behind a leading '/'

PathChars == {"a", "b", "/", "-", "."}

\* one more character of the path
PathGrows(ch) ==
    /\ Len(path_trip.path) <= MaxPathLen
    /\ path_trip' = [path |-> Append(path_trip.path, ch), done |-> FALSE,
                     encoded |-> <<>>, decoded |-> <<>>]
    /\ UNCHANGED <<daemonVars, ackVars, regVars, storeVars, cliVars>>

EncodeDecode ==
    /\ ~path_trip.done
    /\ path_trip' = [path_trip EXCEPT
                        !.done = TRUE,
                        !.encoded = encode_path(path_trip.path),
                        !.decoded = decode_path(encode_path(path_trip.path))]
    /\ UNCHANGED <<daemonVars, ackVars, regVars, storeVars, cliVars>>

InitCodec == InitServers

NextCodec ==
    \/ \E ch \in PathChars : PathGrows(ch)
    \/ EncodeDecode

SpecCodec == InitCodec /\ [][NextCodec]_vars

\* C26: decode_path(encode_path(p)) = p for every path p that starts with
\* '/' and is built from letters, '/', '-' and '.'
C26_EncodeDecodeIdentity ==
    (path_trip.done /\ StartsWith(path_trip.path, <<"/">>)) =>
        path_trip.decoded = path_trip.path

\* ------------------------------------------------- the adapter's role

\* the step is a call of op by p that returned result
ElectStep(op, p, result) ==
    /\ hist'.elect.at # hist.elect.at
    /\ hist'.elect = [op |-> op, proc |-> p, result |-> result, at |-> hist'.elect.at]

\* C27: an adapter's role turns Writer only in a register() that returned
\* Writer or a try_takeover() that returned true; a try_takeover() that
\* returned false leaves the role as it was and starts no heartbeat task
C27_WriterOnlyByRegisterOrTakeover ==
    [][\A p \in Procs :
          /\ (role[p] # "Writer" /\ role'[p] = "Writer") =>
                 \/ ElectStep("register", p, "Writer")
                 \/ ElectStep("try_takeover", p, "true")
          /\ ElectStep("try_takeover", p, "false") =>
                 /\ role'[p] = role[p]
                 /\ tasks'[p] = tasks[p]
                 /\ heartbeat_handle'[p] = heartbeat_handle[p]]_vars

\* a try_takeover that returned false to a Reader while the other adapter is
\* Writer with its heartbeat task alive
C27_TakeoverRefused ==
    \E p, q \in Procs :
        /\ hist.elect.op = "try_takeover" /\ hist.elect.proc = p
        /\ hist.elect.result = "false"
        /\ role[p] = "Reader" /\ DOMAIN tasks[p] = {}
        /\ role[q] = "Writer" /\ DOMAIN tasks[q] # {}

\* the tasks of p whose heartbeat call failed and that have not ended yet
FailedTasks(p) == {t \in DOMAIN tasks[p] : tasks[p][t] = "failed"}

\* the step is a turn of a heartbeat task of p that reached the heartbeat call
HeartbeatCalled(p) ==
    /\ ~heartbeat_cancel[p]
    /\ \E t \in DOMAIN tasks[p] : tasks[p][t] = "sleeping"
    /\ \/ store' # store
       \/ \E t \in DOMAIN tasks[p] : tasks[p][t] = "sleeping" /\ tasks'[p][t] = "failed"
    /\ hist'.elect = hist.elect
    /\ budget' = budget

C29_ReleaseLeavesReader ==
    [][\A p \in Procs :
          (ElectStep("release", p, "Ok") \/ ElectStep("release", p, "Err")) =>
              role'[p] = "Reader" /\ DOMAIN tasks'[p] = {}]_vars

\* --------------------------------------------------- what start() sends

InitStart ==
    /\ Init
    /\ ~registry
    /\ directory = <<>>
    /\ current_url = Url(Localhost)

NextStart ==
    \/ Start
    \/ Stop

SpecStart == InitStart /\ [][NextStart]_vars

\* C30: a start() that succeeded has sent daemon:register, then
\* daemon:etermOnline, then at most one daemon:projectData snapshot of at most
\* ProjectLimit projects, then daemon:sessionMetadata frames, each of a project
\* of that snapshot and of at most SessionLimit sessions; a start() whose
\* connect failed has sent nothing
C30_StartFramesInOrder ==
    /\ phase = "failed" => sent = <<>>
    /\ phase = "running" =>
          /\ Len(sent) >= 2
          /\ sent[1].event = "daemon:register"
          /\ sent[2].event = "daemon:etermOnline"
          /\ Len(sent) >= 3 =>
                /\ sent[3].event = "daemon:projectData"
                /\ Cardinality(sent[3].val.projects) <= ProjectLimit
                /\ \A i \in 4..Len(sent) :
                      /\ sent[i].event = "daemon:sessionMetadata"
                      /\ sent[i].val.sessions <= SessionLimit
                      /\ sent[i].val.project \in sent[3].val.projects

\* ------------------------------------- the tailer and the SharedStore
\* The daemon with or without a SharedStore adapter: records are appended
\* to a watched transcript while the socket and the writer lease come and go.

InitSync ==
    /\ Init
    /\ project_dirs = <<>>
    /\ ~registry
    /\ directory = <<>>
    /\ servers_up = {Localhost}
    /\ current_url = Url(Localhost)
    /\ files[S1].exists
    /\ files[S2] = NoFile

NextSync ==
    \/ Start
    \/ RunOnce
    \/ ServerSends(Event("server:startWatching", [sessionId |-> S1, projectPath |-> ProjectPath]))
    \/ \E t \in Transports : OnDisconnect(t)
    \/ WriteBytes(S1)
    \/ \E t \in TaskIds : HeartbeatTick(Daemon, t)
    \/ \E t \in TaskIds : HeartbeatDemote(Daemon, t)

SpecSync == InitSync /\ [][NextSync]_vars

\* C31: a record the Tailer yielded is written to the SharedStore only by a
\* daemon that has an adapter, and is carried by exactly one daemon:newMessage
\* frame whether its write succeeded, failed or was not attempted
C31_OneFrameWhateverTheWrite ==
    /\ hist.synced # {} => shared_db
    /\ \A k \in hist.yielded : Cardinality(NewMessageFrames(k)) = 1

\* ------------------------------------------------ the heartbeat tasks

\* C32: an adapter has at most one heartbeat task alive at any time
C32_AtMostOneHeartbeatTask ==
    \A p \in Procs : Cardinality(DOMAIN tasks[p]) <= 1

\* ------------------------------------- SocketClient in discovery mode
\* The client with a Directory and a DaemonRegistration: its keepalive task,
\* its daemon key and its reconnect() are followed while servers come and
\* go, keys age and the Directory's commands fail.

\* number of reconnect and update_sessions_in_redis calls made on the client
MaxClientCalls == 3

\* config.daemon_info.device_id
DeviceId == "d1"
KeepaliveIds == 1..(MaxClientCalls + 1)

\* what a register_daemon call can come to: both commands done, the SET
\* refused, or the key written and the PUBLISH refused
RegisterOutcomes == {"Ok", "SetFails", "PublishFails"}

\* SocketClient::stop_keepalive over k = [handle, tasks]; the task waits at
\* an await point in every step of its loop, where abort ends it
stop_keepalive(k) == [handle |-> 0, tasks |-> k.tasks \ {k.handle}]

\* SocketClient::start_keepalive
start_keepalive(k) ==
    LET k1 == stop_keepalive(k)
        t == CHOOSE t \in KeepaliveIds \ k1.tasks : \A u \in KeepaliveIds \ k1.tasks : t <= u
    IN [handle |-> t, tasks |-> k1.tasks \cup {t}]

\* SocketClient::register_daemon_to_redis, with ServiceRegistry::register_daemon,
\* over g = [daemon_keys, channel]; at is the time of the call
register_daemon_to_redis(g, at, how) ==
    IF how = "SetFails" THEN g
    ELSE LET g1 == [g EXCEPT !.daemon_keys =
                        set_ex(@, DeviceId, DaemonInfo(DeviceId, at), Ttl)]
         IN IF how = "PublishFails" THEN g1
            ELSE [g1 EXCEPT !.channel =
                      Append(@, ServiceEvent("online", DeviceId,
                                             DaemonInfo(DeviceId, at).sessions, "daemon"))]

\* SocketClient::discover_server: the first server listed, if any
discover_server(listing) ==
    IF get_servers(listing) = <<>> THEN current_url ELSE Url(Head(get_servers(listing)))

\* SocketClient::reconnect; dir_ok is whether get_servers answers
Reconnect ==
    /\ cli.op # None
    /\ cli.n < MaxClientCalls
    /\ \E dir_ok \in BOOLEAN, how \in RegisterOutcomes :
         LET k1 == stop_keepalive([handle |-> keepalive_handle, tasks |-> keepalive_tasks])
             d1 == disconnect(Cur)
             url == IF dir_ok THEN discover_server(directory) ELSE current_url
             opened == dir_ok /\ Accepts(url) /\ FreeTransports(d1.transports) # {}
             d2 == IF dir_ok THEN connect_to(d1, url) ELSE d1
             g == [daemon_keys |-> daemon_keys, channel |-> channel]
             g1 == IF opened THEN register_daemon_to_redis(g, cli.n + 1, how) ELSE g
             done == opened /\ how = "Ok"
             k2 == IF done THEN start_keepalive(k1) ELSE k1
         IN /\ (~dir_ok \/ ~opened) => how = "Ok"
            /\ Install(d2)
            /\ current_url' = url
            /\ daemon_keys' = g1.daemon_keys
            /\ channel' = g1.channel
            /\ keepalive_handle' = k2.handle
            /\ keepalive_tasks' = k2.tasks
            /\ cli' = [cli EXCEPT !.n = @ + 1,
                                  !.op = "reconnect",
                                  !.result = IF done THEN "Ok" ELSE "Err",
                                  !.listed = IF dir_ok THEN get_servers(directory) ELSE <<>>,
                                  !.from = Len(channel)]
    /\ UNCHANGED <<event_rx, servers_up, directory, phase, registry, shared_db, files,
                   elecVars, budget, ackVars, pathVars, storeVars, servers_found, reg_calls,
                   reconnect_rx, listener>>

\* SocketClient::connect_with_discovery: init_registry, start_event_listener,
\* then discovery, connect, the daemon key and the keepalive task
ConnectWithDiscovery ==
    /\ cli.op = None
    /\ \E dir_ok \in BOOLEAN, how \in RegisterOutcomes :
         LET k0 == [handle |-> keepalive_handle, tasks |-> keepalive_tasks]
             url == IF dir_ok THEN discover_server(directory) ELSE current_url
             opened == dir_ok /\ Accepts(url) /\ FreeTransports(transports) # {}
             d2 == IF dir_ok THEN connect_to(Cur, url) ELSE Cur
             g == [daemon_keys |-> daemon_keys, channel |-> channel]
             g1 == IF opened THEN register_daemon_to_redis(g, cli.n + 1, how) ELSE g
             done == opened /\ how = "Ok"
             k2 == IF done THEN start_keepalive(k0) ELSE k0
         IN /\ (~dir_ok \/ ~opened) => how = "Ok"
            /\ Install(d2)
            /\ current_url' = url
            /\ daemon_keys' = g1.daemon_keys
            /\ channel' = g1.channel
            /\ keepalive_handle' = k2.handle
            /\ keepalive_tasks' = k2.tasks
            /\ cli' = [cli EXCEPT !.n = @ + 1,
                                  !.op = "connect_with_discovery",
                                  !.result = IF done THEN "Ok" ELSE "Err",
                                  !.listed = IF dir_ok THEN get_servers(directory) ELSE <<>>,
                                  !.from = Len(channel)]
    /\ listener' = [pc |-> "recv", rx |-> <<>>]
    /\ UNCHANGED <<event_rx, servers_up, directory, phase, registry, shared_db, files,
                   elecVars, budget, ackVars, pathVars, storeVars, servers_found, reg_calls,
                   reconnect_rx>>

\* one turn of a keepalive task: keep_alive_daemon renews the key if it is there
KeepaliveTick(t) ==
    /\ t \in keepalive_tasks
    /\ DeviceId \in DOMAIN daemon_keys
    /\ daemon_keys[DeviceId].ttl < Ttl
    /\ daemon_keys' = expire(daemon_keys, DeviceId, Ttl)
    /\ UNCHANGED <<daemonVars, ackVars, pathVars, storeVars, channel, servers_found, reg_calls,
                   keepalive_handle, keepalive_tasks, reconnect_rx, listener, cli>>

\* what an update_daemon_sessions call can come to: all three commands done,
\* the key not found, the SET refused, or the key written and the PUBLISH
\* refused
UpdateOutcomes == {"Ok", "NotFound", "SetFails", "PublishFails"}

\* SocketClient::update_sessions_in_redis, with
\* ServiceRegistry::update_daemon_sessions, over g = [daemon_keys, channel]
update_sessions_in_redis(g, sess, how) ==
    IF DeviceId \notin DOMAIN g.daemon_keys \/ how = "SetFails" THEN g
    ELSE LET info == [g.daemon_keys[DeviceId].value EXCEPT !.sessions = sess]
             g1 == [g EXCEPT !.daemon_keys = set_ex(@, DeviceId, info, Ttl)]
         IN IF how = "PublishFails" THEN g1
            ELSE [g1 EXCEPT !.channel =
                      Append(@, ServiceEvent("session_update", DeviceId, sess, "daemon"))]

\* a call of update_sessions_in_redis once the registry is initialised;
\* cli.sessions is the list the last call wrote to the key
UpdateSessions(sess) ==
    /\ cli.op # None
    /\ cli.n < MaxClientCalls
    /\ \E how \in UpdateOutcomes :
         LET g == [daemon_keys |-> daemon_keys, channel |-> channel]
             found == DeviceId \in DOMAIN daemon_keys
             g1 == update_sessions_in_redis(g, sess, how)
             wrote == found /\ how \in {"Ok", "PublishFails"}
         IN /\ (how = "NotFound") <=> ~found
            /\ daemon_keys' = g1.daemon_keys
            /\ channel' = g1.channel
            /\ cli' = [cli EXCEPT !.n = @ + 1,
                                  !.op = "update_sessions_in_redis",
                                  !.result = IF how = "Ok" THEN "Ok" ELSE "Err",
                                  !.sessions = IF wrote THEN sess ELSE @,
                                  !.from = Len(channel)]
    /\ UNCHANGED <<daemonVars, ackVars, pathVars, storeVars, servers_found, reg_calls,
                   keepalive_handle, keepalive_tasks, reconnect_rx, listener>>

InitClient ==
    /\ Init
    /\ project_dirs = <<>>
    /\ registry
    /\ ~shared_db
    /\ servers_up # {}
    /\ \A s \in Sessions : files[s] = NoFile

NextClient ==
    \/ ConnectWithDiscovery
    \/ Reconnect
    \/ \E t \in KeepaliveIds : KeepaliveTick(t)
    \/ \E sess \in SessionLists : UpdateSessions(sess)
    \/ KeyAges(DeviceId)
    \/ \E t \in Transports : OnDisconnect(t)
    \/ DirectoryChange

SpecClient == InitClient /\ [][NextClient]_vars

\* the step is a reconnect() that returned result
Reconnected(result) ==
    /\ cli'.n # cli.n
    /\ cli'.op = "reconnect"
    /\ cli'.result = result

\* C33: when reconnect() returns Ok the socket is connected to the endpoint
\* it rediscovered, the daemon key is in the Directory and one keepalive task
\* runs; when it returns an error the connected flag is false and no
\* keepalive task runs
C33_ReconnectOutcome ==
    [][/\ Reconnected("Ok") =>
             /\ connected'
             /\ Alive(transports', client')
             /\ transports'[client'].url = current_url'
             /\ current_url' = IF cli'.listed = <<>> THEN current_url
                               ELSE Url(Head(cli'.listed))
             /\ DeviceId \in DOMAIN daemon_keys'
             /\ Cardinality(keepalive_tasks') = 1
       /\ Reconnected("Err") =>
             /\ ~connected'
             /\ keepalive_tasks' = {}]_vars

\* ------------------------------------------- the reactive reconnect task

\* number of ServiceEvents the Directory's channel delivers to the listener
MaxServiceEvents == 3

\* the events of the channel, as far as the listener tells them apart
ListenedEvents ==
    {[service |-> "server", type |-> "online"], [service |-> "server", type |-> "offline"],
     [service |-> "daemon", type |-> "online"]}

\* the capacity of the reconnect channel
ReconnectCapacity == 1

\* the Directory's channel delivers an event to the listener's receiver
ServiceEventArrives(ev) ==
    /\ listener.pc # "none"
    /\ cli.events < MaxServiceEvents
    /\ Len(listener.rx) < MaxQueue
    /\ listener' = [listener EXCEPT !.rx = Append(@, ev)]
    /\ cli' = [cli EXCEPT !.events = @ + 1]
    /\ UNCHANGED <<daemonVars, ackVars, regVars, pathVars, storeVars, keepalive_handle,
                   keepalive_tasks, reconnect_rx>>

\* one turn of the listener's loop: rx.recv(), the test of the event and of
\* the flag, and reconnect_tx.send(()).await, which waits while the channel
\* is full
ListenerRecv ==
    /\ listener.pc = "recv"
    /\ listener.rx # <<>>
    /\ LET event == Head(listener.rx)
           wanted == event.service = "server" /\ event.type = "online" /\ ~connected
       IN /\ listener' = [pc |-> IF wanted /\ reconnect_rx >= ReconnectCapacity
                                  THEN "send" ELSE "recv",
                          rx |-> Tail(listener.rx)]
          /\ reconnect_rx' = IF wanted /\ reconnect_rx < ReconnectCapacity
                             THEN reconnect_rx + 1 ELSE reconnect_rx
    /\ UNCHANGED <<daemonVars, ackVars, regVars, pathVars, storeVars, keepalive_handle,
                   keepalive_tasks, cli>>

\* the send that waited gets its place in the channel
ListenerSent ==
    /\ listener.pc = "send"
    /\ reconnect_rx < ReconnectCapacity
    /\ listener' = [listener EXCEPT !.pc = "recv"]
    /\ reconnect_rx' = reconnect_rx + 1
    /\ UNCHANGED <<daemonVars, ackVars, regVars, pathVars, storeVars, keepalive_handle,
                   keepalive_tasks, cli>>

\* SocketClient::wait_for_reconnect / try_recv_reconnect take a signal
RecvReconnect ==
    /\ reconnect_rx > 0
    /\ reconnect_rx' = reconnect_rx - 1
    /\ UNCHANGED <<daemonVars, ackVars, regVars, pathVars, storeVars, keepalive_handle,
                   keepalive_tasks, listener, cli>>

NextListener ==
    \/ ConnectWithDiscovery
    \/ \E t \in Transports : OnDisconnect(t)
    \/ \E ev \in ListenedEvents : ServiceEventArrives(ev)
    \/ ListenerRecv
    \/ ListenerSent
    \/ RecvReconnect

SpecListener == InitClient /\ [][NextListener]_vars

\* the step is the listener taking the event at the head of its receiver
Listened == Len(listener'.rx) < Len(listener.rx)

\* the event at the head of the receiver is one that asks for a reconnect
Qualifies ==
    /\ Head(listener.rx).service = "server"
    /\ Head(listener.rx).type = "online"
    /\ ~connected

\* C34: the listener puts a signal in the reconnect channel exactly for a
\* server online event taken while the flag is false; a signal that meets a
\* pending one is merged into it, so that at most one signal is pending and
\* the listener goes on to its next event
C34_SignalsCoalesce ==
    [][Listened =>
          /\ listener'.pc = "recv"
          /\ reconnect_rx' = IF Qualifies THEN 1 ELSE reconnect_rx]_vars

\* --------------------------------------------- replies and timeouts

\* C35: every approvalResponse handled is either handed to the caller of its
\* request, which returns exactly its decision, or answered with one
\* daemon:approvalExpired frame for its requestId
C35_ResponseNeverLost ==
    [][/\ HandlesResponse =>
            LET ev == Head(event_rx)
                r == unwrap_or_default(ev.requestId)
            IN \/ /\ r \in DOMAIN pending_approvals
                  /\ callers'[pending_approvals[r]].chan = Filled(ev)
               \/ Cardinality(ExpiredFrames(sent', r))
                      = Cardinality(ExpiredFrames(sent, r)) + 1
       /\ \A c \in Callers : ReturnsResponse(c) => ReturnsChannelValue(c)]_vars

\* the step is the cleanup of call c: the remove of its Ok(Err(_)) arm or of
\* its timeout arm
CleansUp(c) ==
    \/ callers[c].pc = "waiting" /\ callers'[c].pc = "done" /\ callers'[c].how = "closed"
    \/ callers[c].pc = "timed out" /\ callers'[c].pc = "timeout emit"

\* C36: the cleanup of a call leaves the slot of every other call in the
\* pending map, with its sender held
C36_CleanupRemovesOwnSlotOnly ==
    [][\A c \in Callers :
          CleansUp(c) =>
              \A o \in Callers \ {c} :
                  OwnsSlot(o) =>
                      /\ callers[o].rid \in DOMAIN pending_approvals'
                      /\ pending_approvals'[callers[o].rid] = o
                      /\ callers'[o].chan = callers[o].chan]_vars

\* ------------------------------------------------ role and heartbeat task

\* C37: between calls on an adapter its role is Writer exactly when a
\* heartbeat task of it is alive; a demotion by a failed heartbeat never
\* leaves the role Reader while the task of a later successful call runs
C37_WriterIffHeartbeatAlive ==
    \A p \in Procs \ hist.dropped : (role[p] = "Writer") <=> (DOMAIN tasks[p] # {})

\* ------------------------------------------------ superseded transports

\* a transport that a later successful connect() has replaced
Superseded(t) == client # 0 /\ t # client /\ transports[t].state # "unused"

\* C38: the disconnect and error callbacks of a superseded transport neither
\* clear the connected flag nor enqueue a __disconnected event
C38_SupersededCallbacksInert ==
    [][\A t \in Transports :
          (Superseded(t) /\ (OnDisconnect(t) \/ OnError(t))) =>
              /\ connected' = connected
              /\ event_rx' = event_rx]_vars

\* ------------------------------------------------ the two watch sets

\* C39: between run_once iterations the service's watching_sessions set is
\* the key set of the SessionWatcher map
C39_WatchSetsAgree ==
    watching_sessions = DOMAIN sessions

\* ------------------------------------------------ the session list

\* the event a register_daemon of the step published
OnlineEvent == channel'[Len(channel')]

\* C40: a reconnect() that re-registers the daemon leaves in the Directory
\* entry, and puts in the online event it publishes, the session list that
\* update_sessions_in_redis wrote last
C40_ReregisterKeepsSessions ==
    [][Reconnected("Ok") =>
          /\ daemon_keys'[DeviceId].value.sessions = cli.sessions
          /\ Len(channel') = Len(channel) + 1
          /\ OnlineEvent.type = "online"
          /\ OnlineEvent.sessions = cli.sessions]_vars

====
